---- MODULE Spec2Model ----
(***************************************************************************)
(* A state-machine model of delta_bot: the order-ladder manager            *)
(* (order_manager.py), the strategy coordinator's tick loop and fill       *)
(* handler (strategy.py) and the risk functions (risk.py).                 *)
(*                                                                         *)
(* Scheduling is asyncio's: one thread, coroutines that give up control    *)
(* only at an await.  Every action of the model therefore runs one         *)
(* coroutine from the await it is suspended in to the next await it        *)
(* reaches; a state of the model is a point where every coroutine is       *)
(* suspended.  The awaits are: the snapshot gather, asyncio.Lock.acquire   *)
(* when the lock is taken, asyncio.sleep in the rate limiter, every        *)
(* gateway call of the client, gather over the sync_symbol coroutines and  *)
(* the inter-tick sleep.                                                   *)
(*                                                                         *)
(* Prices of orders are integers (ticks of 1/100), money amounts are exact *)
(* rationals [n, d]; floating-point rounding is not modelled.              *)
(***************************************************************************)
EXTENDS Integers, Sequences, FiniteSets, TLC

(***************************************************************************)
(* Bounds of the model.                                                    *)
(***************************************************************************)
\* Level indexes 0 .. MaxLevels-1 exist on each side of each symbol.
MaxLevels == 2
\* Clock units per second: time.monotonic() moves in steps of 1/OneSecond s.
OneSecond == 2
\* Ticks of Strategy.run a bounded specification lets start after the first.
MaxTicks == 1
\* Fills a bounded specification lets the gateway deliver.
MaxFills == 1
\* Fills the specification SpecFill lets the gateway deliver.
MaxFillSteps == 3
\* The largest drawdown, in percent, drawdown_adjustments is applied to.
MaxDrawdownPct == 40
\* The largest ETF mispricing, in bps either way, _side_size_scales is applied to.
MaxMispricingBps == 100
\* The number of mids per symbol, in steps of MidStep, the ladders of a tick are built for.
MaxMidSteps == 10
MaxOvershoot == 5000

(***************************************************************************)
(* Program constants (config.py).                                          *)
(***************************************************************************)
MAX_ACTIONS_PER_SECOND == 95
MIN_MOVE_TO_REFRESH_BPS == 2
ETF_SYMBOL == "ETF"
\* ALL_SYMBOLS, cut to the ETF and its first constituent, in config order.
ALL_SYMBOLS == <<"ETF", "XYZ">>
Symbols == {ALL_SYMBOLS[i] : i \in 1..Len(ALL_SYMBOLS)}
\* SYNTHETIC_WEIGHTS in percent, for the constituents modelled.
SYNTHETIC_WEIGHTS == [s \in Symbols \ {ETF_SYMBOL} |-> 50]
\* Side.BID, Side.ASK in the order sync_symbol and cancel_all visit them.
SideSeq == <<"bid", "ask">>
Sides == {"bid", "ask"}
Levels == 0..(MaxLevels - 1)

(***************************************************************************)
(* Values.                                                                 *)
(***************************************************************************)
\* dict.get(level_index) returning None: no order at that level.
NoOrder == [price |-> 0, size |-> 0]
\* An OrderLevel / OrderInfo at a known (symbol, side, level_index).
Order(p, q) == [price |-> p, size |-> q]
\* One side of a ladder: level index -> OrderLevel, NoOrder where the list
\* holds no level of that index (indexes are unique within a desired set).
EmptySide == [l \in Levels |-> NoOrder]
EmptyLadder == [sd \in Sides |-> EmptySide]
desired_indexes(side_ladder) == {l \in Levels : side_ladder[l] # NoOrder}

Abs(x) == IF x < 0 THEN -x ELSE x
Max(a, b) == IF a >= b THEN a ELSE b
Min(a, b) == IF a <= b THEN a ELSE b

(***************************************************************************)
(* order_manager.py: pure parts.                                           *)
(***************************************************************************)
\* _bps_distance(a, b) >= bps.  The distance is |a-b| / ((a+b)/2) * 10000,
\* and +inf when a price is not positive; the comparison is cross-multiplied.
bps_distance_ge(a, b, bps) ==
  IF a <= 0 \/ b <= 0 THEN TRUE
  ELSE Abs(a - b) * 10000 * 2 >= bps * (a + b)

\* A mutant of _needs_refresh: every live order is refreshed.
needs_refresh_always(existing, level) == TRUE

\* OrderLadderManager._needs_refresh
needs_refresh(existing, level) ==
  IF existing.size # level.size THEN TRUE
  ELSE bps_distance_ge(existing.price, level.price, MIN_MOVE_TO_REFRESH_BPS)

\* The body of _sync_side's loop for one desired level: what is sent.
sync_side_op(existing, level) ==
  IF existing = NoOrder THEN "place"
  ELSE IF needs_refresh(existing, level) THEN "replace" ELSE "skip"

\* A mutant of _prune_levels: no level is ever pruned.
prune_op_never(info, level_index, indexes) == "skip"

\* The body of _prune_levels' loop for one (level_index, info) item.
prune_op(info, level_index, indexes) ==
  IF level_index \in indexes THEN "skip"
  ELSE IF info = NoOrder THEN "skip"
  ELSE "cancel"

(***************************************************************************)
(* sync_symbol visits 4 * MaxLevels places in order: _sync_side(BID),      *)
(* _sync_side(ASK), _prune_levels(BID), _prune_levels(ASK), each over the  *)
(* level indexes in ascending order (the order build_ladders emits, and    *)
(* the order in which the mirror's dict then holds them).                  *)
(***************************************************************************)
SyncEnd == 4 * MaxLevels
sync_phase(k) == k \div MaxLevels
sync_side(k) == SideSeq[(sync_phase(k) % 2) + 1]
pos_level(k) == k % MaxLevels

\* What sync_symbol does at place k, given the symbol's mirror and ladder.
sync_op(ao_s, des, k) ==
  LET sd == sync_side(k)
      l == pos_level(k)
  IN IF sync_phase(k) < 2
     THEN IF des[sd][l] = NoOrder THEN "skip"
          ELSE sync_side_op(ao_s[sd][l], des[sd][l])
     ELSE IF ao_s[sd][l] = NoOrder THEN "skip"
          ELSE prune_op(ao_s[sd][l], l, desired_indexes(des[sd]))

\* The first place from k on at which sync_symbol sends something.
RECURSIVE sync_scan(_, _, _)
sync_scan(ao_s, des, k) ==
  IF k >= SyncEnd THEN SyncEnd
  ELSE IF sync_op(ao_s, des, k) # "skip" THEN k
  ELSE sync_scan(ao_s, des, k + 1)

(***************************************************************************)
(* cancel_all visits every symbol (dict order of symbol_configs), both     *)
(* sides and every level; after the last level of a side it clears that    *)
(* side's dict.                                                            *)
(***************************************************************************)
CancelEnd == Len(ALL_SYMBOLS) * 2 * MaxLevels
cancel_symbol(k) == ALL_SYMBOLS[(k \div (2 * MaxLevels)) + 1]
cancel_side(k) == SideSeq[((k \div MaxLevels) % 2) + 1]

\* self.active_orders[symbol][side].clear(), once the side's loop is over.
clear_after(ao, k) ==
  IF pos_level(k) = MaxLevels - 1
  THEN [ao EXCEPT ![cancel_symbol(k)][cancel_side(k)] = EmptySide]
  ELSE ao

\* cancel_all from place k to the next order it cancels (or to its end),
\* clearing the sides it finishes on the way.
RECURSIVE cancel_all_scan(_, _)
cancel_all_scan(ao, k) ==
  IF k >= CancelEnd THEN [ao |-> ao, pos |-> CancelEnd]
  ELSE IF ao[cancel_symbol(k)][cancel_side(k)][pos_level(k)] # NoOrder
       THEN [ao |-> ao, pos |-> k]
       ELSE cancel_all_scan(clear_after(ao, k), k + 1)

(***************************************************************************)
(* The rate limiter.                                                       *)
(***************************************************************************)
\* A mutant of _reserve_action_slot: the budget is not compared.
reserve_action_slot_unchecked(elapsed_now, actions) ==
  LET reset == elapsed_now >= OneSecond
      a1 == IF reset THEN 0 ELSE actions
  IN [granted |-> TRUE, reset |-> reset,
      elapsed |-> IF reset THEN 0 ELSE elapsed_now,
      actions |-> a1 + 1, sleep |-> 0]

\* A mutant of _reserve_action_slot: the window is never reset.
reserve_action_slot_no_reset(elapsed_now, actions) ==
  IF actions < MAX_ACTIONS_PER_SECOND
  THEN [granted |-> TRUE, reset |-> FALSE, elapsed |-> elapsed_now,
        actions |-> actions + 1, sleep |-> 0]
  ELSE [granted |-> FALSE, reset |-> FALSE, elapsed |-> elapsed_now,
        actions |-> actions, sleep |-> Max(0, OneSecond - elapsed_now)]

\* One pass of _reserve_action_slot's loop, with elapsed_now the value of
\* time.monotonic() - _window_start.  The slot is granted, or the caller
\* sleeps max(0, 1 s - elapsed).
reserve_action_slot(elapsed_now, actions) ==
  LET reset == elapsed_now >= OneSecond
      a1 == IF reset THEN 0 ELSE actions
      e1 == IF reset THEN 0 ELSE elapsed_now
  IN IF a1 < MAX_ACTIONS_PER_SECOND
     THEN [granted |-> TRUE, reset |-> reset, elapsed |-> e1,
           actions |-> a1 + 1, sleep |-> 0]
     ELSE [granted |-> FALSE, reset |-> reset, elapsed |-> e1,
           actions |-> a1, sleep |-> Max(0, OneSecond - elapsed_now)]

(***************************************************************************)
(* State.                                                                  *)
(***************************************************************************)
VARIABLES
  active_orders,        \* OrderLadderManager.active_orders: symbol -> side -> level -> order
  elapsed,              \* time.monotonic() - _window_start, in clock units, kept up to OneSecond
  actions_this_window,  \* OrderLadderManager._actions_this_window
  lock,                 \* holder of OrderLadderManager._lock, or "free"
  waiters,              \* asyncio.Lock's FIFO of coroutines waiting in acquire()
  task,                 \* the sync_symbol coroutine of each symbol, and cancel_all under "main"
  desired,              \* the (bids, asks) arguments of each symbol's sync_symbol call
  run,                  \* Strategy.run: the await it is suspended in; stop: this tick found
                        \* its adjustment throttled or its size_scale 0
  market,               \* Strategy.market: symbol -> last snapshot stored
  positions,            \* Strategy.positions: symbol -> PositionState
  pnl,                  \* Strategy.pnl: PnLState
  sent_this_window,     \* observer: client calls made since the window was last reset
  last_sync,            \* observer: the ladder of each symbol's last sync_symbol, while its effect stands
  fill_net,             \* observer: per symbol, the signed quantity of all fills delivered
  fill_cash,            \* observer: minus the sum of signed quantity * price over all fills delivered
  ticks,                \* observer: ticks started (bounded specifications)
  nfills,               \* observer: fills delivered (bounded specifications)
  watch,                \* observer: a stopwatch over one second and the actions issued in it
  seen,                 \* observer: what the ticks observed (drawdown band, failed snapshots)
  fills,                \* observer: the fills delivered to register_fill, in order
  exchange,             \* environment: the orders live at the exchange
  probe                 \* the arguments and the result of the pure function under check

manager == <<active_orders, elapsed, actions_this_window, lock, waiters, task,
             desired, sent_this_window, last_sync>>
strategy == <<run, market, positions, pnl, fill_net, fill_cash>>
extra == <<seen, fills, exchange, probe>>
bounded == <<ticks, nfills, watch, extra>>
vars == <<manager, strategy, bounded>>

Tasks == Symbols \cup {"main"}

\* A coroutine that has not been created (or whose result has been consumed).
IdleTask == [pc |-> "idle", pos |-> 0, op |-> "none", sleep |-> 0,
             acts |-> 0, n0 |-> 0, same |-> FALSE, ao0 |-> EmptyLadder]

\* The number of orders the mirror holds.
order_count(ao) ==
  Cardinality({x \in Symbols \X Sides \X Levels : ao[x[1]][x[2]][x[3]] # NoOrder})

(***************************************************************************)
(* The manager's fields as one record, so that a coroutine's run from one  *)
(* await to the next is a function  [m, t] -> [m, t].                      *)
(***************************************************************************)
Mgr == [ao |-> active_orders, elapsed |-> elapsed,
        actions |-> actions_this_window, sent |-> sent_this_window]

\* A mutant of replace_order: a replace is one gateway request.
io_op_single(kind) == kind

\* The gateway call a granted slot is followed by.
io_op(kind) == IF kind = "replace" THEN "replace_cancel" ELSE kind

\* _throttled_place / _throttled_replace / _throttled_cancel for the
\* operation t.op: reserve a slot and call the client (the coroutine is then
\* suspended in the gateway call), or sleep in the limiter.  first: this is
\* the call's entry, not a pass of the limiter's loop after a sleep.
throttled(m, t, first) ==
  LET r == reserve_action_slot(m.elapsed, m.actions)
      m1 == [m EXCEPT !.elapsed = r.elapsed, !.actions = r.actions,
                      !.sent = IF r.reset THEN 0 ELSE m.sent]
      t1 == [t EXCEPT !.acts = IF first THEN t.acts + 1 ELSE t.acts]
  IN IF r.granted
     THEN [m |-> [m1 EXCEPT !.sent = m1.sent + 1],
           t |-> [t1 EXCEPT !.pc = "io", !.op = io_op(t.op), !.sleep = 0]]
     ELSE [m |-> m1, t |-> [t1 EXCEPT !.pc = "sleep", !.sleep = r.sleep]]

\* sync_symbol(symbol, bids, asks) from place k to its next await, or to its
\* end (the lock is released by the caller of this operator).
sync_symbol(m, t, symbol, k) ==
  LET k1 == sync_scan(m.ao[symbol], desired[symbol], k)
  IN IF k1 >= SyncEnd
     THEN [m |-> m, t |-> [t EXCEPT !.pc = "done", !.pos = 0, !.op = "none"]]
     ELSE throttled(m, [t EXCEPT !.pos = k1,
                                 !.op = sync_op(m.ao[symbol], desired[symbol], k1)],
                    TRUE)

\* cancel_all from place k to its next await, or to its end.
cancel_all(m, t, k) ==
  LET r == cancel_all_scan(m.ao, k)
      m1 == [m EXCEPT !.ao = r.ao]
  IN IF r.pos >= CancelEnd
     THEN [m |-> m1, t |-> [t EXCEPT !.pc = "done", !.pos = 0, !.op = "none"]]
     ELSE throttled(m1, [t EXCEPT !.pos = r.pos, !.op = "cancel"], TRUE)

\* The body of coroutine c from place k.
body(m, t, c, k) ==
  IF c = "main" THEN cancel_all(m, t, k) ELSE sync_symbol(m, t, c, k)

\* The mirror once the gateway call of coroutine c at t.pos has returned.
io_result(ao, t, c) ==
  IF c = "main" THEN clear_after(ao, t.pos)
  ELSE LET sd == sync_side(t.pos)
           l == pos_level(t.pos)
       IN IF t.op = "cancel"
          THEN [ao EXCEPT ![c][sd][l] = NoOrder]
          ELSE [ao EXCEPT ![c][sd][l] = desired[c][sd][l]]

(***************************************************************************)
(* Exact rationals [n, d] with d > 0, in lowest terms, for the floats of   *)
(* strategy.py and risk.py.                                                *)
(***************************************************************************)
RECURSIVE GCD(_, _)
GCD(a, b) == IF b = 0 THEN a ELSE GCD(b, a % b)
Rat(n, d) ==
  LET g == GCD(Abs(n), Abs(d))
      sg == IF d < 0 THEN -1 ELSE 1
  IN [n |-> (sg * n) \div g, d |-> (sg * d) \div g]
I(k) == [n |-> k, d |-> 1]
Zero == I(0)
One == I(1)
\* Sums and comparisons go through the least common denominator, products
\* cancel crosswise first, to keep the intermediate integers small.
RAdd(a, b) ==
  LET g == GCD(a.d, b.d)
  IN Rat(a.n * (b.d \div g) + b.n * (a.d \div g), (a.d \div g) * b.d)
RNeg(a) == [n |-> -a.n, d |-> a.d]
RSub(a, b) == RAdd(a, RNeg(b))
RMul(a, b) ==
  LET g1 == GCD(Abs(a.n), b.d)
      g2 == GCD(Abs(b.n), a.d)
  IN Rat((a.n \div g1) * (b.n \div g2), (a.d \div g2) * (b.d \div g1))
RDiv(a, b) == RMul(a, Rat(b.d, b.n))
RLe(a, b) ==
  LET g == GCD(a.d, b.d)
  IN a.n * (b.d \div g) <= b.n * (a.d \div g)
RLt(a, b) == ~RLe(b, a)
RMax(a, b) == IF RLe(b, a) THEN a ELSE b
RMin(a, b) == IF RLe(a, b) THEN a ELSE b
RAbs(a) == [n |-> Abs(a.n), d |-> a.d]

(***************************************************************************)
(* config.py: risk limits and scaling parameters.                          *)
(***************************************************************************)
RISK_LIMITS == [max_position |-> 25000,
                max_dollar_exposure |-> I(5000000),
                drawdown_stop_pct |-> Rat(15, 100),
                hard_stop_pct |-> Rat(25, 100)]
DRAWDOWN_SPREAD_MULT == Rat(15, 10)
DRAWDOWN_SIZE_REDUCTION == Rat(7, 10)
TARGET_RESTING_NOTIONAL == 800000
\* DEFAULT_SYMBOL_CONFIG[symbol], the same for every symbol.
SymbolConfig == [base_size |-> 400, size_multiplier |-> Rat(3, 2), base_spread_bps |-> 15,
                 level_spread_step_bps |-> 15, max_levels |-> 6]

(***************************************************************************)
(* models.py, risk.py.                                                     *)
(***************************************************************************)
FlatPosition == [position |-> 0, vwap |-> Zero]
NewPnL == [realized |-> Zero, unrealized |-> Zero, equity_high_watermark |-> Zero]

\* A stored MarketSnapshot: none yet, one with an empty side (mid is None),
\* or one with a mid.
NoSnapshot == [snap |-> FALSE, has_mid |-> FALSE, mid |-> 0]
EmptyBook == [snap |-> TRUE, has_mid |-> FALSE, mid |-> 0]
Book(mid) == [snap |-> TRUE, has_mid |-> TRUE, mid |-> mid]

\* Strategy._mid_map: the mids of the stored snapshots that have one.
mid_map(mkt) ==
  [s \in {x \in Symbols : mkt[x].snap /\ mkt[x].has_mid} |-> mkt[s].mid]

\* Sum of f[s] over the symbols of the set S (f rational valued).
RECURSIVE RSum(_, _)
RSum(f, S) ==
  IF S = {} THEN Zero
  ELSE LET x == CHOOSE y \in S : TRUE
       IN RAdd(f[x], RSum(f, S \ {x}))

\* risk.compute_dollar_exposure
compute_dollar_exposure(pos, mids) ==
  RSum([s \in DOMAIN mids |-> I(Abs(pos[s].position * mids[s]))], DOMAIN mids)

\* PnLState.update_high_watermark
update_high_watermark(p) ==
  [p EXCEPT !.equity_high_watermark =
              RMax(p.equity_high_watermark, RAdd(p.realized, p.unrealized))]

\* risk.update_unrealized_pnl
update_unrealized_pnl(p, pos, mids) ==
  update_high_watermark(
    [p EXCEPT !.unrealized =
       RSum([s \in DOMAIN mids |->
               RMul(I(pos[s].position), RSub(I(mids[s]), pos[s].vwap))],
            DOMAIN mids)])

\* A mutant of compute_drawdown_pct: with no high watermark yet, the drop
\* is taken in dollars.
compute_drawdown_pct_unguarded(p) ==
  LET equity == RAdd(p.realized, p.unrealized)
      drop == RSub(p.equity_high_watermark, equity)
  IN IF RLe(drop, Zero) THEN Zero
     ELSE RDiv(drop, RMax(One, p.equity_high_watermark))

\* risk.compute_drawdown_pct
compute_drawdown_pct(p) ==
  LET equity == RAdd(p.realized, p.unrealized)
      drop == RSub(p.equity_high_watermark, equity)
  IN IF RLe(p.equity_high_watermark, Zero) THEN Zero
     ELSE IF RLe(drop, Zero) THEN Zero
     ELSE RDiv(drop, p.equity_high_watermark)

\* A mutant of drawdown_adjustments: the severity is not squared.
drawdown_adjustments_linear(drawdown_pct) ==
  IF RLe(RISK_LIMITS.hard_stop_pct, drawdown_pct)
  THEN [spread_scale |-> I(2), size_scale |-> Zero, throttled |-> TRUE]
  ELSE IF RLe(drawdown_pct, RISK_LIMITS.drawdown_stop_pct)
  THEN [spread_scale |-> One, size_scale |-> One, throttled |-> FALSE]
  ELSE LET severity == RDiv(RSub(drawdown_pct, RISK_LIMITS.drawdown_stop_pct),
                            RSub(RISK_LIMITS.hard_stop_pct, RISK_LIMITS.drawdown_stop_pct))
       IN [spread_scale |-> RAdd(One, RMul(severity, DRAWDOWN_SPREAD_MULT)),
           size_scale |-> RMax(Rat(2, 10), RSub(One, RMul(severity, DRAWDOWN_SIZE_REDUCTION))),
           throttled |-> FALSE]

\* risk.drawdown_adjustments
drawdown_adjustments(drawdown_pct) ==
  IF RLe(RISK_LIMITS.hard_stop_pct, drawdown_pct)
  THEN [spread_scale |-> I(2), size_scale |-> Zero, throttled |-> TRUE]
  ELSE IF RLe(drawdown_pct, RISK_LIMITS.drawdown_stop_pct)
  THEN [spread_scale |-> One, size_scale |-> One, throttled |-> FALSE]
  ELSE LET sev0 == RDiv(RSub(drawdown_pct, RISK_LIMITS.drawdown_stop_pct),
                        RSub(RISK_LIMITS.hard_stop_pct, RISK_LIMITS.drawdown_stop_pct))
           severity == RMax(Zero, RMin(One, sev0))
           curved == RMul(severity, severity)
       IN [spread_scale |-> RAdd(One, RMul(curved, DRAWDOWN_SPREAD_MULT)),
           size_scale |-> RMax(Rat(2, 10), RSub(One, RMul(curved, DRAWDOWN_SIZE_REDUCTION))),
           throttled |-> FALSE]

\* Strategy._exposure_size_scale
exposure_size_scale(exposure) ==
  LET limit == RISK_LIMITS.max_dollar_exposure
  IN IF RLe(exposure, Zero) \/ RLe(exposure, limit) THEN One
     ELSE RMax(Rat(25, 100), RMin(One, RDiv(limit, exposure)))

\* The sum of the n ladder sizes from `size` on, each int(size * multiplier)
\* of the one before (the inner loop of _resting_notional_scale).
RECURSIVE ladder_size_sum(_, _)
ladder_size_sum(size, n) ==
  IF n = 0 THEN 0
  ELSE size + ladder_size_sum(
         Max(1, (size * SymbolConfig.size_multiplier.n) \div SymbolConfig.size_multiplier.d),
         n - 1)

\* Strategy._resting_notional_scale
resting_notional_scale(mids) ==
  LET size_sum == ladder_size_sum(SymbolConfig.base_size, SymbolConfig.max_levels)
      base == RSum([s \in DOMAIN mids |-> I(2 * mids[s] * size_sum)], DOMAIN mids)
  IN IF RLe(base, Zero) THEN One
     ELSE RMax(Rat(1, 2), RMin(I(3), RDiv(I(TARGET_RESTING_NOTIONAL), base)))

(***************************************************************************)
(* strategy.py: the fill handler.                                          *)
(***************************************************************************)
\* A mutant of register_fill: a reducing fill realizes PnL on its whole
\* size, not on the part that closes.
fill_update_whole_size(pos, p, symbol, side, size, price) ==
  LET signed_qty == IF side = "bid" THEN size ELSE -size
      pre_position == pos[symbol].position
      vw == pos[symbol].vwap
      realized1 ==
        IF pre_position > 0 /\ signed_qty < 0
        THEN RAdd(p.realized, RMul(I(size), RSub(I(price), vw)))
        ELSE IF pre_position < 0 /\ signed_qty > 0
        THEN RAdd(p.realized, RMul(I(size), RSub(vw, I(price))))
        ELSE p.realized
      new_position == pre_position + signed_qty
      vwap1 ==
        IF pre_position = 0 \/ (pre_position > 0 /\ signed_qty > 0)
                            \/ (pre_position < 0 /\ signed_qty < 0)
        THEN RDiv(RAdd(RMul(vw, I(Abs(pre_position))), I(price * size)),
                  I(Abs(pre_position) + size))
        ELSE IF new_position = 0 \/ (new_position > 0) # (pre_position > 0)
        THEN I(price)
        ELSE vw
  IN [realized |-> realized1, vwap |-> vwap1, position |-> new_position]

\* A mutant of register_fill: a fill that crosses through zero leaves the
\* VWAP of the closed position.
fill_update_cross_keeps(pos, p, symbol, side, size, price) ==
  LET signed_qty == IF side = "bid" THEN size ELSE -size
      pre_position == pos[symbol].position
      vw == pos[symbol].vwap
      closing == Min(Abs(pre_position), size)
      realized1 ==
        IF pre_position > 0 /\ signed_qty < 0
        THEN RAdd(p.realized, RMul(I(closing), RSub(I(price), vw)))
        ELSE IF pre_position < 0 /\ signed_qty > 0
        THEN RAdd(p.realized, RMul(I(closing), RSub(vw, I(price))))
        ELSE p.realized
      new_position == pre_position + signed_qty
      vwap1 ==
        IF pre_position = 0 \/ (pre_position > 0 /\ signed_qty > 0)
                            \/ (pre_position < 0 /\ signed_qty < 0)
        THEN RDiv(RAdd(RMul(vw, I(Abs(pre_position))), I(price * size)),
                  I(Abs(pre_position) + size))
        ELSE IF new_position = 0 THEN I(price)
        ELSE vw
  IN [realized |-> realized1, vwap |-> vwap1, position |-> new_position]

\* A mutant of register_fill: a fill that brings the position to zero
\* clears the VWAP.
fill_update_flat_clears(pos, p, symbol, side, size, price) ==
  LET signed_qty == IF side = "bid" THEN size ELSE -size
      pre_position == pos[symbol].position
      vw == pos[symbol].vwap
      closing == Min(Abs(pre_position), size)
      realized1 ==
        IF pre_position > 0 /\ signed_qty < 0
        THEN RAdd(p.realized, RMul(I(closing), RSub(I(price), vw)))
        ELSE IF pre_position < 0 /\ signed_qty > 0
        THEN RAdd(p.realized, RMul(I(closing), RSub(vw, I(price))))
        ELSE p.realized
      new_position == pre_position + signed_qty
      vwap1 ==
        IF pre_position = 0 \/ (pre_position > 0 /\ signed_qty > 0)
                            \/ (pre_position < 0 /\ signed_qty < 0)
        THEN RDiv(RAdd(RMul(vw, I(Abs(pre_position))), I(price * size)),
                  I(Abs(pre_position) + size))
        ELSE IF new_position = 0 THEN Zero
        ELSE IF (new_position > 0) # (pre_position > 0) THEN I(price)
        ELSE vw
  IN [realized |-> realized1, vwap |-> vwap1, position |-> new_position]

\* What register_fill computes from one fill: the realized PnL, the
\* position's VWAP and the new position.
fill_update(pos, p, symbol, side, size, price) ==
  LET signed_qty == IF side = "bid" THEN size ELSE -size
      pre_position == pos[symbol].position
      vw == pos[symbol].vwap
      realized1 ==
        IF pre_position > 0 /\ signed_qty < 0
        THEN RAdd(p.realized,
                  RMul(I(Min(pre_position, Abs(signed_qty))), RSub(I(price), vw)))
        ELSE IF pre_position < 0 /\ signed_qty > 0
        THEN RAdd(p.realized,
                  RMul(I(Min(Abs(pre_position), signed_qty)), RSub(vw, I(price))))
        ELSE p.realized
      new_position == pre_position + signed_qty
      total_size == Abs(pre_position) + Abs(signed_qty)
      vwap1 ==
        IF pre_position = 0 \/ (pre_position > 0 /\ signed_qty > 0)
                            \/ (pre_position < 0 /\ signed_qty < 0)
        THEN IF total_size > 0
             THEN RDiv(RAdd(RMul(vw, I(Abs(pre_position))), I(price * Abs(signed_qty))),
                       I(total_size))
             ELSE vw
        ELSE IF new_position = 0 THEN I(price)
        ELSE IF (new_position > 0 /\ signed_qty > 0) \/ (new_position < 0 /\ signed_qty < 0)
        THEN I(price)
        ELSE vw
  IN [realized |-> realized1, vwap |-> vwap1, position |-> new_position]

\* A mutant of register_fill: realized PnL and VWAP are written, the
\* position is not (the handler gives up control before its last line).
register_fill_no_position(pos, p, symbol, side, size, price) ==
  LET u == fill_update(pos, p, symbol, side, size, price)
  IN [positions |-> [pos EXCEPT ![symbol].vwap = u.vwap],
      pnl |-> [p EXCEPT !.realized = u.realized]]

\* Strategy.register_fill(symbol, side, size, price): the handler has no
\* await, so its three writes are one step.
register_fill(pos, p, symbol, side, size, price) ==
  LET u == fill_update(pos, p, symbol, side, size, price)
  IN [positions |-> [pos EXCEPT ![symbol] = [position |-> u.position, vwap |-> u.vwap]],
      pnl |-> [p EXCEPT !.realized = u.realized]]

(***************************************************************************)
(* strategy.py: what a tick computes between the snapshot gather and its   *)
(* next await.                                                             *)
(***************************************************************************)
INVENTORY_PRIORITY_WEIGHT == 120
ETF_PRIORITY_BONUS == 10

\* Strategy._compute_synthetic_fair; defined: some constituent or the ETF has a mid.
synthetic_fair(mids) ==
  LET basket == DOMAIN mids \cap DOMAIN SYNTHETIC_WEIGHTS
  IN IF basket = {} THEN I(mids[ETF_SYMBOL])
     ELSE RSum([s \in basket |-> Rat(SYNTHETIC_WEIGHTS[s] * mids[s], 100)], basket)
has_synthetic_fair(mids) ==
  (DOMAIN mids \cap DOMAIN SYNTHETIC_WEIGHTS) # {} \/ ETF_SYMBOL \in DOMAIN mids

\* Strategy._compute_mispricing_bps
compute_mispricing_bps(mids) ==
  IF ~has_synthetic_fair(mids) \/ RLe(synthetic_fair(mids), Zero) THEN Zero
  ELSE IF ETF_SYMBOL \notin DOMAIN mids \/ mids[ETF_SYMBOL] <= 0 THEN Zero
  ELSE RMul(RDiv(RSub(I(mids[ETF_SYMBOL]), synthetic_fair(mids)), synthetic_fair(mids)),
            I(10000))

\* Strategy._symbol_priority
symbol_priority(symbol, etf_mispricing_bps, pos) ==
  LET comp == IF symbol # ETF_SYMBOL
              THEN RMul(RAbs(etf_mispricing_bps),
                        IF symbol \in DOMAIN SYNTHETIC_WEIGHTS
                        THEN Rat(SYNTHETIC_WEIGHTS[symbol], 100) ELSE Zero)
              ELSE RAbs(etf_mispricing_bps)
      ratio == Rat(Abs(pos[symbol].position), Max(1, RISK_LIMITS.max_position))
      prio == RAdd(comp, RMul(ratio, I(INVENTORY_PRIORITY_WEIGHT)))
  IN IF symbol = ETF_SYMBOL THEN RAdd(prio, I(ETF_PRIORITY_BONUS)) ELSE prio

\* A mutant of _quote_all's sort: ascending priority (reverse=True dropped).
symbol_order_ascending(etf_mispricing_bps, pos) ==
  LET n == Len(ALL_SYMBOLS)
      pr == [i \in 1..n |-> symbol_priority(ALL_SYMBOLS[i], etf_mispricing_bps, pos)]
      before(i) == {j \in 1..n : RLt(pr[j], pr[i]) \/ (pr[j] = pr[i] /\ j < i)}
  IN [k \in 1..n |-> ALL_SYMBOLS[CHOOSE i \in 1..n : Cardinality(before(i)) = k - 1]]

\* sorted(ALL_SYMBOLS, key=_symbol_priority, reverse=True): a stable sort,
\* equal priorities keep the order of ALL_SYMBOLS.
symbol_order(etf_mispricing_bps, pos) ==
  LET n == Len(ALL_SYMBOLS)
      pr == [i \in 1..n |-> symbol_priority(ALL_SYMBOLS[i], etf_mispricing_bps, pos)]
      before(i) == {j \in 1..n : RLt(pr[i], pr[j]) \/ (pr[j] = pr[i] /\ j < i)}
  IN [k \in 1..n |-> ALL_SYMBOLS[CHOOSE i \in 1..n : Cardinality(before(i)) = k - 1]]

\* A mutant of _quote_all's skips: every symbol is handed to sync_symbol.
quoted_always(symbol, mkt, mids) == TRUE

\* The symbols _quote_all builds a ladder for: a snapshot is stored and a
\* fair value exists (the synthetic fair for the ETF, its own mid otherwise).
quoted(symbol, mkt, mids) ==
  /\ mkt[symbol].snap
  /\ IF symbol = ETF_SYMBOL THEN has_synthetic_fair(mids) ELSE symbol \in DOMAIN mids

\* A mutant of the tick's stop check: a throttled tick goes on to quote.
stop_quoting_never(adj, size_scale) == FALSE

\* `if throttled or size_scale == 0.0` of Strategy.run.
stop_quoting(adj, size_scale) == adj.throttled \/ size_scale = Zero

\* A mutant of asyncio.Lock: acquire() returns although the lock is held.
lock_available_always(holder, queue, c) == TRUE

\* asyncio.Lock: acquire() returns for coroutine c when the lock is not
\* held and c is the first of those waiting.
lock_available(holder, queue, c) ==
  holder = "free" /\ (queue = <<>> \/ Head(queue) = c)

(***************************************************************************)
(* Initial state: Strategy.__init__ and OrderLadderManager.__init__, with  *)
(* run() suspended in its first snapshot gather.                           *)
(***************************************************************************)
Init ==
  /\ active_orders = [s \in Symbols |-> EmptyLadder]
  /\ elapsed = 0
  /\ actions_this_window = 0
  /\ lock = "free"
  /\ waiters = <<>>
  /\ task = [c \in Tasks |-> IdleTask]
  /\ desired = [s \in Symbols |-> EmptyLadder]
  /\ run = [pc |-> "refresh", stop |-> FALSE]
  /\ market = [s \in Symbols |-> NoSnapshot]
  /\ positions = [s \in Symbols |-> FlatPosition]
  /\ pnl = NewPnL
  /\ sent_this_window = 0
  /\ last_sync = [s \in Symbols |-> [valid |-> FALSE, ladder |-> EmptyLadder]]
  /\ fill_net = [s \in Symbols |-> 0]
  /\ fill_cash = 0
  /\ ticks = 0
  /\ nfills = 0
  /\ watch = [phase |-> 0, left |-> 0, count |-> 0]
  /\ seen = [halt |-> FALSE, failed |-> {}, priority |-> [s \in Symbols |-> Zero]]
  /\ fills = <<>>
  /\ exchange = [s \in Symbols |-> EmptyLadder]
  /\ probe = [kind |-> "none"]

(***************************************************************************)
(* Actions.  None of them writes the observers ticks, nfills and watch:    *)
(* each specification states those.                                        *)
(***************************************************************************)
\* The manager's fields and coroutine c's record after a run r of c.
SetManager(c, r) ==
  /\ active_orders' = r.m.ao
  /\ elapsed' = r.m.elapsed
  /\ actions_this_window' = r.m.actions
  /\ sent_this_window' = r.m.sent
  /\ task' = [task EXCEPT ![c] = r.t]
  /\ lock' = IF r.t.pc \in {"done", "raised"} THEN "free" ELSE c

\* The event loop resumes coroutine c: from asyncio.Lock.acquire, from the
\* limiter's asyncio.sleep, or from a gateway call that returned (ok) or
\* raised (~ok).  c runs to its next await or to its end.  Once run() has
\* raised, asyncio.run tears the loop down and nothing is resumed.
Resume(c, ok) ==
  LET t == task[c]
  IN /\ run.pc \notin {"raised", "closed"}
     /\ t.pc \in {"wait_lock", "sleep", "io"}
     /\ t.pc = "wait_lock" => lock_available(lock, waiters, c)
     /\ t.pc = "sleep" => t.sleep = 0
     /\ \E r \in {CASE t.pc = "wait_lock" ->
                    body(Mgr, [t EXCEPT !.n0 = IF c = "main" THEN order_count(active_orders)
                                                ELSE 0],
                         c, 0)
                  [] t.pc = "sleep" -> throttled(Mgr, t, FALSE)
                  [] t.pc = "io" /\ ~ok -> [m |-> Mgr, t |-> [t EXCEPT !.pc = "raised"]]
                  [] t.pc = "io" /\ ok /\ t.op = "replace_cancel" ->
                    [m |-> Mgr, t |-> [t EXCEPT !.op = "replace_place"]]
                  [] OTHER ->
                    body([Mgr EXCEPT !.ao = io_result(active_orders, t, c)], t, c, t.pos + 1)} :
          /\ SetManager(c, r)
          /\ last_sync' =
               IF c = "main" THEN last_sync
               ELSE IF r.t.pc = "done"
               THEN [last_sync EXCEPT ![c] = [valid |-> TRUE, ladder |-> desired[c]]]
               ELSE IF r.t.pc = "raised"
               THEN [last_sync EXCEPT ![c] = [valid |-> FALSE, ladder |-> EmptyLadder]]
               ELSE last_sync
          /\ run' = IF c = "main" /\ r.t.pc = "done" THEN [run EXCEPT !.pc = "sleep"]
                    ELSE IF c = "main" /\ r.t.pc = "raised" THEN [run EXCEPT !.pc = "raised"]
                    ELSE run
     /\ waiters' = IF t.pc = "wait_lock" THEN SelectSeq(waiters, LAMBDA x : x # c)
                   ELSE waiters
     /\ UNCHANGED <<desired, market, positions, pnl, fill_net, fill_cash>>

\* time.monotonic() moves on by one unit.
Tock ==
  /\ elapsed' = Min(elapsed + 1, OneSecond)
  /\ task' = [c \in Tasks |->
                IF task[c].pc = "sleep" /\ task[c].sleep > 0
                THEN [task[c] EXCEPT !.sleep = task[c].sleep - 1]
                ELSE task[c]]
  /\ UNCHANGED <<active_orders, actions_this_window, lock, waiters, desired,
                 sent_this_window, last_sync, strategy>>

\* The gateway delivers a fill: StreamingGatewayClient._handle_response_frame
\* -> ExchangeClient._on_gateway_fill -> Strategy.register_fill, no await.
Fill(symbol, side, size, price) ==
  LET r == register_fill(positions, pnl, symbol, side, size, price)
      signed_qty == IF side = "bid" THEN size ELSE -size
  IN /\ positions' = r.positions
     /\ pnl' = r.pnl
     /\ fill_net' = [fill_net EXCEPT ![symbol] = fill_net[symbol] + signed_qty]
     /\ fill_cash' = fill_cash - signed_qty * price
     /\ UNCHANGED <<manager, run, market>>

\* Strategy.run leaves _sleep and starts the next tick: it is suspended in
\* _refresh_order_books' gather.
RunWake ==
  /\ run.pc = "sleep"
  /\ run' = [pc |-> "refresh", stop |-> FALSE]
  /\ task' = [task EXCEPT !["main"] = IdleTask]
  /\ UNCHANGED <<active_orders, elapsed, actions_this_window, lock, waiters, desired,
                 sent_this_window, last_sync, market, positions, pnl, fill_net, fill_cash>>

\* Line 60: await self._order_manager.cancel_all(), up to its first await.
CallCancelAll(stop) ==
  IF lock_available(lock, waiters, "main")
  THEN \E r \in {body(Mgr, [IdleTask EXCEPT !.n0 = order_count(active_orders)], "main", 0)} :
          /\ SetManager("main", r)
          /\ run' = [pc |-> IF r.t.pc = "done" THEN "sleep" ELSE "cancel_all",
                     stop |-> stop]
          /\ UNCHANGED <<waiters, desired>>
  ELSE /\ task' = [task EXCEPT !["main"] = [IdleTask EXCEPT !.pc = "wait_lock"]]
       /\ waiters' = Append(waiters, "main")
       /\ run' = [pc |-> "cancel_all", stop |-> stop]
       /\ UNCHANGED <<active_orders, elapsed, actions_this_window, lock,
                      sent_this_window, desired>>

\* Lines 64-72: _quote_all creates one sync_symbol coroutine per quoted
\* symbol, in priority order, and awaits their gather.  ladders[s] is what
\* build_ladders returns for s, one of choices[s]; it is EmptyLadder in the
\* model for a symbol that is not quoted.
CallQuoteAll(mkt, mids, choices, stop) ==
  \E created \in {SelectSeq(symbol_order(compute_mispricing_bps(mids), positions),
                            LAMBDA s : quoted(s, mkt, mids))} :
  \E ladders \in [Symbols -> UNION {choices[s] : s \in Symbols} \cup {EmptyLadder}] :
     /\ \A s \in Symbols :
          IF \E i \in 1..Len(created) : created[i] = s THEN ladders[s] \in choices[s]
          ELSE ladders[s] = EmptyLadder
     /\ desired' = ladders
     /\ task' = [c \in Tasks |->
                   IF \E i \in 1..Len(created) : created[i] = c
                   THEN LET same == last_sync[c].valid /\ last_sync[c].ladder = ladders[c]
                        IN [IdleTask EXCEPT !.pc = "wait_lock", !.same = same,
                                            !.ao0 = IF same THEN active_orders[c]
                                                    ELSE EmptyLadder]
                   ELSE task[c]]
     /\ waiters' = waiters \o created
     /\ run' = [pc |-> IF created = <<>> THEN "sleep" ELSE "gather", stop |-> stop]
     /\ UNCHANGED <<active_orders, elapsed, actions_this_window, lock, sent_this_window>>

\* The tick's size_scale: drawdown, exposure and resting-notional factors.
tick_size_scale(adj, pos, mids) ==
  RMul(RMul(adj.size_scale, exposure_size_scale(compute_dollar_exposure(pos, mids))),
       resting_notional_scale(mids))

\* Lines 46-72 of Strategy.run: the snapshot gather returns; snaps[s] is the
\* symbol's result (an exception, or a snapshot).  The tick then runs to its
\* next await: the inter-tick sleep, cancel_all, or the gather of the syncs.
RunRefreshed(snaps, choices) ==
  /\ run.pc = "refresh"
  /\ \E market1 \in {[s \in Symbols |->
                        IF snaps[s].ok THEN snaps[s].snapshot ELSE market[s]]} :
     \E mids \in {mid_map(market1)} :
       /\ market' = market1
       /\ UNCHANGED <<positions, fill_net, fill_cash>>
       /\ IF DOMAIN mids = {}
          THEN /\ run' = [pc |-> "sleep", stop |-> FALSE]
               /\ UNCHANGED <<manager, pnl>>
          ELSE \E pnl1 \in {update_unrealized_pnl(pnl, positions, mids)} :
               \E adj \in {drawdown_adjustments(compute_drawdown_pct(pnl1))} :
               \E size_scale \in {tick_size_scale(adj, positions, mids)} :
               \E stop \in {adj.throttled \/ size_scale = Zero} :
                 /\ pnl' = pnl1
                 /\ IF stop_quoting(adj, size_scale)
                    THEN CallCancelAll(stop) /\ last_sync' =
                           [s \in Symbols |-> [valid |-> FALSE, ladder |-> EmptyLadder]]
                    ELSE CallQuoteAll(market1, mids, choices, stop) /\ UNCHANGED last_sync

\* The gather of the sync_symbol coroutines returns to _quote_all: with the
\* first exception raised by one of them, or when all are done.
RunGathered ==
  /\ run.pc = "gather"
  /\ IF \E s \in Symbols : task[s].pc = "raised"
     THEN /\ run' = [run EXCEPT !.pc = "raised"]
          /\ UNCHANGED <<task, desired>>
     ELSE /\ \A s \in Symbols : task[s].pc \in {"idle", "done"}
          /\ run' = [run EXCEPT !.pc = "sleep"]
          /\ task' = [c \in Tasks |-> IF c \in Symbols THEN IdleTask ELSE task[c]]
          /\ desired' = [s \in Symbols |-> EmptyLadder]
  /\ UNCHANGED <<active_orders, elapsed, actions_this_window, lock, waiters,
                 sent_this_window, last_sync, market, positions, pnl, fill_net, fill_cash>>

(***************************************************************************)
(* Inputs.                                                                 *)
(***************************************************************************)
\* Results of one get_order_book call: an exception, or a snapshot.
Failed == [ok |-> FALSE, snapshot |-> NoSnapshot]
Got(snapshot) == [ok |-> TRUE, snapshot |-> snapshot]

\* Order prices in ticks: the second is within MIN_MOVE_TO_REFRESH_BPS of
\* the first (1 bps away), the third is not (100 bps away).
Prices == <<10000, 10001, 10100>>
PriceA == Prices[1]
PriceNear == Prices[2]
PriceFar == Prices[3]
Side0 == EmptySide
Side1 == [l \in Levels |-> IF l = 0 THEN Order(PriceA, 1) ELSE NoOrder]
Side2 == [l \in Levels |-> IF l = 0 THEN Order(PriceA, 1) ELSE Order(PriceFar, 1)]
Side3 == [l \in Levels |-> IF l = 0 THEN Order(PriceNear, 1) ELSE Order(PriceFar, 2)]
Side4 == [l \in Levels |-> IF l = 0 THEN NoOrder ELSE Order(PriceA, 1)]
Ladder(b, a) == [bid |-> b, ask |-> a]

\* The ladders build_ladders returns in the specification Spec.
LadderChoices ==
  [ETF |-> {Ladder(Side2, Side2), Ladder(Side3, Side1), Ladder(Side1, Side4)},
   XYZ |-> {Ladder(Side2, Side0), Ladder(Side3, Side0)}]
\* The snapshots a refresh returns in the specification Spec.
SnapChoices ==
  [ETF |-> {Failed, Got(Book(104)), Got(Book(103))},
   XYZ |-> {Failed, Got(Book(100))}]
Snaps == {sn \in [Symbols -> UNION {SnapChoices[s] : s \in Symbols}] :
            \A s \in Symbols : sn[s] \in SnapChoices[s]}
\* The fills the gateway delivers in the specification Spec.
FillChoices == {<<"ETF", "bid", 1, 100>>}

(***************************************************************************)
(* Spec: the coordinator and the manager over MaxTicks further ticks,      *)
(* gateway calls that may raise, at most MaxFills fills; the clock is read *)
(* to move on between ticks.                                               *)
(***************************************************************************)
Next ==
  \/ \E c \in Tasks, ok \in BOOLEAN : Resume(c, ok) /\ UNCHANGED bounded
  \/ /\ run.pc = "sleep"
     /\ elapsed < OneSecond
     /\ Tock
     /\ UNCHANGED bounded
  \/ /\ nfills < MaxFills
     /\ run.pc \notin {"raised", "closed"}
     /\ \E f \in FillChoices : Fill(f[1], f[2], f[3], f[4])
     /\ nfills' = nfills + 1
     /\ UNCHANGED <<ticks, watch, extra>>
  \/ /\ ticks < MaxTicks
     /\ RunWake
     /\ ticks' = ticks + 1
     /\ UNCHANGED <<nfills, watch, extra>>
  \/ /\ run.pc = "refresh"
     /\ \E snaps \in Snaps : RunRefreshed(snaps, LadderChoices)
     /\ UNCHANGED bounded
  \/ RunGathered /\ UNCHANGED bounded

Spec == Init /\ [][Next]_vars

(***************************************************************************)
(* SpecLimiter: the manager under load.  Every snapshot arrives, no        *)
(* gateway call raises, ticks go on for ever and the clock moves freely,   *)
(* so that the window's budget is used up; each symbol's ladder is one bid *)
(* that moves between two prices; at most MaxFills fills, after which a    *)
(* fall of the ETF's mid makes a tick stop quoting.                        *)
(***************************************************************************)
Side5 == [l \in Levels |-> IF l = 0 THEN Order(PriceFar, 1) ELSE NoOrder]
LimiterLadders == [s \in Symbols |-> {Ladder(Side1, Side0), Ladder(Side5, Side0)}]
LimiterSnaps == {[s \in Symbols |-> Got(Book(IF s = ETF_SYMBOL THEN m ELSE 100))] :
                   m \in {103, 104}}

NextLimiter ==
  \/ \E c \in Tasks : Resume(c, TRUE) /\ UNCHANGED bounded
  \/ Tock /\ UNCHANGED bounded
  \/ RunWake /\ UNCHANGED bounded
  \/ /\ nfills < MaxFills
     /\ \E f \in FillChoices : Fill(f[1], f[2], f[3], f[4])
     /\ nfills' = nfills + 1
     /\ UNCHANGED <<ticks, watch, extra>>
  \/ /\ run.pc = "refresh"
     /\ \E snaps \in LimiterSnaps : RunRefreshed(snaps, LimiterLadders)
     /\ UNCHANGED bounded
  \/ RunGathered /\ UNCHANGED bounded

SpecLimiter == Init /\ [][NextLimiter]_vars

(***************************************************************************)
(* SpecRate: SpecLimiter's load without fills, watched by a stopwatch that *)
(* is started before a window's first slot is granted, runs for one second *)
(* (OneSecond clock readings, the current one included) and counts the     *)
(* actions issued meanwhile.                                               *)
(***************************************************************************)
RateSnaps == {[s \in Symbols |-> Got(Book(100))]}

\* Coroutine c was granted a slot in this step and has called the client.
issued(c) ==
  /\ task'[c].pc = "io"
  /\ task'[c].op # "replace_place"
  /\ task[c].pc # "io" \/ task[c].pos # task'[c].pos

StartWatch ==
  /\ watch.phase = 0
  /\ actions_this_window = 0
  /\ watch' = [phase |-> 1, left |-> OneSecond, count |-> 0]
  /\ UNCHANGED <<manager, strategy, ticks, nfills, extra>>

NextRate ==
  \/ \E c \in Tasks :
        /\ Resume(c, TRUE)
        /\ watch' = IF watch.phase = 1 /\ issued(c)
                    THEN [watch EXCEPT !.count = watch.count + 1]
                    ELSE watch
        /\ UNCHANGED <<ticks, nfills, extra>>
  \/ /\ Tock
     /\ watch' = IF watch.phase = 0 THEN watch
                 ELSE IF watch.left = 1 THEN [phase |-> 0, left |-> 0, count |-> 0]
                 ELSE [watch EXCEPT !.left = watch.left - 1]
     /\ UNCHANGED <<ticks, nfills, extra>>
  \/ StartWatch
  \/ RunWake /\ UNCHANGED bounded
  \/ /\ run.pc = "refresh"
     /\ \E snaps \in RateSnaps : RunRefreshed(snaps, LimiterLadders)
     /\ UNCHANGED bounded
  \/ RunGathered /\ UNCHANGED bounded

SpecRate == Init /\ [][NextRate]_vars

(***************************************************************************)
(* SpecFill: the fill handler against the tick loop.  At most MaxFillSteps *)
(* fills of either side, two sizes and two prices arrive at any await of   *)
(* the loop; ticks go on for ever, every ladder is empty.                  *)
(***************************************************************************)
FillShapes ==
  {<<s, sd, q, p>> : s \in Symbols, sd \in Sides, q \in {1, 2}, p \in {100, 110}}
FillLadders == [s \in Symbols |-> {EmptyLadder}]

NextFill ==
  \/ /\ nfills < MaxFillSteps
     /\ \E f \in FillShapes : Fill(f[1], f[2], f[3], f[4])
     /\ nfills' = nfills + 1
     /\ UNCHANGED <<ticks, watch, extra>>
  \/ /\ run.pc = "refresh"
     /\ \E snaps \in LimiterSnaps : RunRefreshed(snaps, FillLadders)
     /\ UNCHANGED bounded
  \/ \E c \in Tasks : Resume(c, TRUE) /\ UNCHANGED bounded
  \/ RunGathered /\ UNCHANGED bounded
  \/ RunWake /\ UNCHANGED bounded

SpecFill == Init /\ [][NextFill]_vars

(***************************************************************************)
(* Properties of sync_symbol, checked under Spec.                          *)
(***************************************************************************)
\* The level indexes of symbol s at which the mirror holds an order, and
\* those of the ladder its sync_symbol was given, agree on both sides.
live_equals_desired(s) ==
  \A sd \in Sides :
    desired_indexes(active_orders[s][sd]) = desired_indexes(desired[s][sd])

\* C3: when sync_symbol(symbol, bids, asks) has completed with no I/O
\* error, the live level indexes of the symbol equal the desired level
\* indexes on each side, whatever the mirror held before.
C3_LiveEqualsDesired ==
  \A s \in Symbols : task[s].pc = "done" => live_equals_desired(s)

\* A sync of the ETF that replaced one level and pruned two has completed.
C3_Witness ==
  /\ task["ETF"].pc = "done"
  /\ desired["ETF"] = Ladder(Side1, Side4)
  /\ task["ETF"].acts = 3

\* C4: a sync_symbol called with the ladder of the symbol's last completed
\* sync_symbol (none failed, no cancel_all since) reserves no slot, sends
\* nothing and leaves the mirror as it found it.
C4_Idempotent ==
  \A s \in Symbols :
    task[s].same =>
      /\ task[s].pc \in {"wait_lock", "done"}
      /\ task[s].acts = 0
      /\ active_orders[s] = task[s].ao0

\* A second sync of the ETF with the same four-level ladder has completed.
C4_Witness ==
  /\ task["ETF"].same
  /\ task["ETF"].pc = "done"
  /\ desired["ETF"] = Ladder(Side2, Side2)

\* C5, as the specification states it: once a place, replace or cancel of
\* sync_symbol has raised, the mirror holds no entry at that (symbol, side,
\* level_index).
C5_FailedEntryRemoved ==
  \A s \in Symbols :
    task[s].pc = "raised" =>
      active_orders[s][sync_side(task[s].pos)][pos_level(task[s].pos)] = NoOrder

\* C6, as the specification states it: no sync_symbol ends by raising.
C6_SyncReturnsNormally ==
  \A s \in Symbols : task[s].pc # "raised"

\* C7, as the specification states it: Strategy.run never raises.
C7_RunNeverRaises ==
  run.pc # "raised"

(***************************************************************************)
(* Properties of the throttled tick, checked under Spec.                   *)
(***************************************************************************)
\* C10: in a tick whose adjustment is throttled or whose size_scale is 0,
\* cancel_all is called and no sync_symbol is; once that cancel_all has
\* completed with no I/O error, one cancel was issued per order the mirror
\* held and the mirror is empty for every symbol and side.
C10_StopCancelsAll ==
  run.stop =>
    /\ \A s \in Symbols : task[s].pc = "idle"
    /\ run.pc \in {"cancel_all", "sleep", "raised"}
    /\ run.pc = "cancel_all" => task["main"].pc \in {"wait_lock", "sleep", "io"}
    /\ run.pc = "sleep" =>
         /\ task["main"].pc = "done"
         /\ task["main"].acts = task["main"].n0
         /\ active_orders = [s \in Symbols |-> EmptyLadder]

\* A throttled tick has cancelled the orders the mirror held, at least two.
C10_Witness ==
  /\ run.stop
  /\ run.pc = "sleep"
  /\ task["main"].acts >= 2

(***************************************************************************)
(* The rolling second, checked under SpecRate.                             *)
(***************************************************************************)
\* C1, as the specification states it: in any one second of the monotonic
\* clock, wherever it starts, at most MAX_ACTIONS_PER_SECOND place, replace
\* and cancel actions are issued.
C1_RollingSecond ==
  watch.count <= MAX_ACTIONS_PER_SECOND

(***************************************************************************)
(* Properties of the limiter and the lock, checked under SpecLimiter.      *)
(***************************************************************************)
\* The coroutines inside the body of sync_symbol or cancel_all: past the
\* lock's acquire, suspended in the limiter's sleep or in a gateway call.
in_body == {c \in Tasks : task[c].pc \in {"sleep", "io"}}

\* C2: with the sync_symbol coroutines of all symbols gathered, the slots
\* granted since the last window reset never exceed MAX_ACTIONS_PER_SECOND,
\* and the client calls made since then are as many as the slots granted:
\* each place, replace or cancel sent has reserved exactly one slot.
C2_NoOvershoot ==
  /\ actions_this_window <= MAX_ACTIONS_PER_SECOND
  /\ sent_this_window = actions_this_window

\* The budget is used up: one sync_symbol sleeps in the limiter while the
\* other waits for the lock.
C2_Witness ==
  /\ actions_this_window = MAX_ACTIONS_PER_SECOND
  /\ \E c, d \in Symbols : task[c].pc = "sleep" /\ task[d].pc = "wait_lock"

\* C8: at most one sync_symbol or cancel_all is inside its body, the one
\* that holds the lock; this includes the time it is suspended in a gateway
\* call or in the limiter's sleep.
C8_MutualExclusion ==
  /\ Cardinality(in_body) <= 1
  /\ \A c \in in_body : lock = c
  /\ task["main"].pc \in {"sleep", "io"} => \A s \in Symbols : task[s].pc = "idle"

\* A sync_symbol sleeps in the limiter, holding the lock, while another one
\* waits for the lock.
C8_Witness ==
  \E c, d \in Symbols :
    /\ task[c].pc = "sleep"
    /\ task[c].sleep > 0
    /\ lock = c
    /\ task[d].pc = "wait_lock"

(***************************************************************************)
(* The fill handler, checked under SpecFill.                               *)
(***************************************************************************)
\* The cost of the open positions at their VWAPs.
open_cost(pos) ==
  RSum([s \in Symbols |-> RMul(I(pos[s].position), pos[s].vwap)], Symbols)

\* C9: at every await of the tick loop, hence whenever a tick reads them,
\* positions and PnL hold every fill delivered so far in full: each position
\* is the net quantity filled, and realized PnL less the cost of the open
\* positions at their VWAPs is the cash the fills have moved.
C9_FillsFolded ==
  /\ \A s \in Symbols : positions[s].position = fill_net[s]
  /\ RSub(pnl.realized, open_cost(positions)) = I(fill_cash)

\* Three fills have taken the ETF through a close into a short position,
\* and a tick has marked it to market.
C9_Witness ==
  /\ nfills = MaxFillSteps
  /\ positions["ETF"].position < 0
  /\ pnl.realized # Zero
  /\ pnl.unrealized # Zero
  /\ run.pc = "sleep"

(***************************************************************************)
(* SpecTicks: the tick loop observed.  Ticks go on for ever; a snapshot    *)
(* call fails or returns one of three ETF mids; at most MaxFills fills     *)
(* arrive; every ladder is empty.  seen records what each tick observed:   *)
(* failed, the symbols whose snapshot call failed in the tick under way;   *)
(* halt, whether the last drawdown observed outside the band between the   *)
(* soft and the hard limit was at or above the hard limit.                 *)
(***************************************************************************)
TickSnaps ==
  [s \in Symbols |-> IF s = ETF_SYMBOL
                     THEN {Failed, Got(Book(103)), Got(Book(104)), Got(Book(105))}
                     ELSE {Failed, Got(Book(100))}]

\* The latch a tick's drawdown d leaves, h being the latch before it.
halt_after(h, d) ==
  IF RLe(RISK_LIMITS.hard_stop_pct, d) THEN TRUE
  ELSE IF RLt(d, RISK_LIMITS.drawdown_stop_pct) THEN FALSE
  ELSE h

NextTicks ==
  \/ /\ run.pc = "refresh"
     /\ \E snaps \in {f \in [Symbols -> UNION {TickSnaps[s] : s \in Symbols}] :
                        \A s \in Symbols : f[s] \in TickSnaps[s]} :
          /\ RunRefreshed(snaps, FillLadders)
          /\ seen' = [seen EXCEPT
                        !.failed = {s \in Symbols : ~snaps[s].ok},
                        !.halt = IF DOMAIN mid_map(market') = {} THEN seen.halt
                                 ELSE halt_after(seen.halt, compute_drawdown_pct(pnl'))]
     /\ UNCHANGED <<ticks, nfills, watch, fills, exchange, probe>>
  \/ /\ nfills < MaxFills
     /\ \E f \in FillChoices : Fill(f[1], f[2], f[3], f[4])
     /\ nfills' = nfills + 1
     /\ UNCHANGED <<ticks, watch, extra>>
  \/ \E c \in Tasks : Resume(c, TRUE) /\ UNCHANGED bounded
  \/ RunGathered /\ UNCHANGED bounded
  \/ /\ RunWake
     /\ seen' = [seen EXCEPT !.failed = {}]
     /\ UNCHANGED <<ticks, nfills, watch, fills, exchange, probe>>

SpecTicks == Init /\ [][NextTicks]_vars

\* C11, as the specification states it: once a tick has observed a drawdown
\* at or above the hard limit, no symbol is quoted (no sync_symbol coroutine
\* exists) until a tick observes a drawdown below the soft limit.
C11_StaysStopped ==
  seen.halt => \A s \in Symbols : task[s].pc = "idle"

\* C13, as the specification states it: a symbol whose snapshot call failed
\* in the tick under way is skipped by that tick: no sync_symbol coroutine
\* is started for it, although an earlier tick stored a snapshot of it.
C13_FailedSnapshotSkipped ==
  \A s \in seen.failed : task[s].pc = "idle"

(***************************************************************************)
(* SpecTeardown: Spec, and the end of runner.main.  Strategy.run ends by   *)
(* an exception of its own (run.pc = "raised") or by the cancellation an   *)
(* external signal delivers at the await it is suspended in; the           *)
(* `async with ExchangeClient()` block then runs __aexit__, which closes   *)
(* the gateway and the HTTP client.  No coroutine runs after that.         *)
(***************************************************************************)
Teardown ==
  /\ run.pc # "closed"
  /\ run' = [run EXCEPT !.pc = "closed"]
  /\ UNCHANGED <<manager, market, positions, pnl, fill_net, fill_cash>>

NextTeardown ==
  \/ Next
  \/ Teardown /\ UNCHANGED bounded

SpecTeardown == Init /\ [][NextTeardown]_vars

\* C12, as the specification states it: the transports are closed only
\* after a cancel_all call has been made and has ended (normally, or by
\* raising: the call is best-effort).
C12_CancelAllBeforeClose ==
  run.pc = "closed" => task["main"].pc \in {"done", "raised"}

(***************************************************************************)
(* SpecExchange: the mirror against the exchange.  exchange holds the      *)
(* orders of this agent that are live at the exchange: a place call that   *)
(* returns has created one, a cancel call that returns has destroyed one   *)
(* (replace_order is a cancel call, then a place call), and the exchange   *)
(* fills a resting order whole at its own price, which destroys it and     *)
(* sends the fill.  Gateway calls succeed; at most MaxFills fills, and     *)
(* MaxTicks ticks after the first.                                         *)
(***************************************************************************)
ORDER_PRICE_SCALE == 100

\* The exchange's orders once coroutine c, suspended as t, is resumed.
exchange_after(ex, t, c) ==
  IF t.pc # "io" THEN ex
  ELSE IF c = "main"
  THEN [ex EXCEPT ![cancel_symbol(t.pos)][cancel_side(t.pos)][pos_level(t.pos)] = NoOrder]
  ELSE LET sd == sync_side(t.pos)
           l == pos_level(t.pos)
       IN IF t.op \in {"cancel", "replace_cancel"}
          THEN [ex EXCEPT ![c][sd][l] = NoOrder]
          ELSE [ex EXCEPT ![c][sd][l] = desired[c][sd][l]]

\* The exchange fills the order resting at (symbol, side, l) whole: the
\* order is gone, and the gateway delivers the fill (_on_gateway_fill
\* divides the price ticks by ORDER_PRICE_SCALE).
OrderFilled(symbol, side, l) ==
  LET o == exchange[symbol][side][l]
  IN /\ o # NoOrder
     /\ o.price % ORDER_PRICE_SCALE = 0
     /\ Fill(symbol, side, o.size, o.price \div ORDER_PRICE_SCALE)
     /\ exchange' = [exchange EXCEPT ![symbol][side][l] = NoOrder]

NextExchange ==
  \/ /\ run.pc = "refresh"
     /\ \E snaps \in LimiterSnaps : RunRefreshed(snaps, LadderChoices)
     /\ UNCHANGED bounded
  \/ \E c \in Tasks :
       /\ Resume(c, TRUE)
       /\ exchange' = exchange_after(exchange, task[c], c)
       /\ UNCHANGED <<ticks, nfills, watch, seen, fills, probe>>
  \/ /\ nfills < MaxFills
     /\ run.pc \notin {"raised", "closed"}
     /\ \E symbol \in Symbols, side \in Sides, l \in Levels : OrderFilled(symbol, side, l)
     /\ nfills' = nfills + 1
     /\ UNCHANGED <<ticks, watch, seen, fills, probe>>
  \/ RunGathered /\ UNCHANGED bounded
  \/ /\ ticks < MaxTicks
     /\ RunWake
     /\ ticks' = ticks + 1
     /\ UNCHANGED <<nfills, watch, extra>>

SpecExchange == Init /\ [][NextExchange]_vars

\* No sync_symbol and no cancel_all call is in progress.
quiet == \A c \in Tasks : task[c].pc \in {"idle", "done"}

\* C14, as the specification states it: whenever no sync_symbol or
\* cancel_all is in progress, the mirror holds exactly the orders of this
\* agent that are live at the exchange.
C14_MirrorIsLive ==
  quiet => active_orders = exchange

(***************************************************************************)
(* SpecFold: register_fill on sequences of fills.  From the flat state, up *)
(* to MaxFillSteps fills arrive, each one of FoldShapes; fills records     *)
(* each fill with the position and the realized PnL it was folded into.    *)
(***************************************************************************)
FoldShapes ==
  {<<ETF_SYMBOL, sd, q, p>> : sd \in Sides, q \in {5, 10, 15}, p \in {100, 110, 120}}
    \cup {<<"XYZ", "bid", 5, 110>>}

NextFold ==
  /\ nfills < MaxFillSteps
  /\ \E f \in FoldShapes :
       /\ Fill(f[1], f[2], f[3], f[4])
       /\ fills' = Append(fills, [symbol |-> f[1], side |-> f[2], size |-> f[3],
                                  price |-> f[4], pre |-> positions[f[1]],
                                  realized0 |-> pnl.realized])
  /\ nfills' = nfills + 1
  /\ UNCHANGED <<ticks, watch, seen, exchange, probe>>

SpecFold == Init /\ [][NextFold]_vars

\* The fills delivered so far, as (side, size, price) of the ETF.
etf_fills ==
  [i \in 1..Len(fills) |->
     IF fills[i].symbol = ETF_SYMBOL
     THEN <<fills[i].side, fills[i].size, fills[i].price>>
     ELSE <<>>]
signed_of(f) == IF f.side = "bid" THEN f.size ELSE -f.size
\* The fills of symbol s delivered so far.
fills_of(s) == SelectSeq(fills, LAMBDA f : f.symbol = s)

\* C15: the last fill folded moved its position by its signed size and
\* realized min(|p|, |signed|) * (price - vwap) on a long position reduced,
\* min(|p|, signed) * (vwap - price) on a short position reduced, nothing
\* otherwise; from flat, [+10@100, -15@110] gives position -5 and realized
\* 100, and [+10@100, -5@110, -5@120] gives position 0 and realized 150.
C15_FoldRule ==
  /\ fills # <<>> =>
       LET f == fills[Len(fills)]
           p == f.pre.position
           signed == signed_of(f)
           gain == RSub(pnl.realized, f.realized0)
       IN /\ positions[f.symbol].position = p + signed
          /\ gain = IF p > 0 /\ signed < 0
                    THEN RMul(I(Min(p, Abs(signed))), RSub(I(f.price), f.pre.vwap))
                    ELSE IF p < 0 /\ signed > 0
                    THEN RMul(I(Min(Abs(p), signed)), RSub(f.pre.vwap, I(f.price)))
                    ELSE Zero
  /\ etf_fills = <<<<"bid", 10, 100>>, <<"ask", 15, 110>>>> =>
       /\ positions[ETF_SYMBOL].position = -5
       /\ pnl.realized = I(100)
  /\ etf_fills = <<<<"bid", 10, 100>>, <<"ask", 5, 110>>, <<"ask", 5, 120>>>> =>
       /\ positions[ETF_SYMBOL].position = 0
       /\ pnl.realized = I(150)

\* The second example sequence of C15 has been folded to its end.
C15_Witness ==
  etf_fills = <<<<"bid", 10, 100>>, <<"ask", 5, 110>>, <<"ask", 5, 120>>>>

\* C16: the last fill folded left the VWAP of its position at the
\* size-weighted average when the position was flat or was extended,
\* unchanged when the position was reduced without reaching zero, and at the
\* fill's price when the position reached or crossed zero; and a symbol
\* whose position is zero after some fill has the VWAP of its last fill.
C16_VwapRule ==
  /\ fills # <<>> =>
       LET f == fills[Len(fills)]
           p == f.pre.position
           signed == signed_of(f)
           n == p + signed
           vwap1 == positions[f.symbol].vwap
       IN IF p = 0 \/ (p > 0) = (signed > 0)
          THEN vwap1 = RDiv(RAdd(RMul(f.pre.vwap, I(Abs(p))), I(f.price * Abs(signed))),
                            I(Abs(p) + Abs(signed)))
          ELSE IF n # 0 /\ (n > 0) = (p > 0)
          THEN vwap1 = f.pre.vwap
          ELSE vwap1 = I(f.price)
  /\ \A s \in Symbols :
       fills_of(s) # <<>> /\ positions[s].position = 0 =>
         positions[s].vwap = I(fills_of(s)[Len(fills_of(s))].price)

\* A position was reduced without reaching zero, then crossed through zero.
C16_Witness ==
  /\ Len(fills) = 3
  /\ fills[2].pre.position = 10 /\ signed_of(fills[2]) = -5
  /\ fills[3].pre.position = 5 /\ signed_of(fills[3]) = -10
  /\ fills[2].price # fills[1].price

\* C17, as amended: the VWAP of a symbol is 0 exactly when no fill of the
\* symbol has been folded; hence a VWAP of 0 implies a position of 0.
C17_ZeroVwapNeverFilled ==
  \A s \in Symbols :
    /\ positions[s].vwap = Zero <=> fills_of(s) = <<>>
    /\ positions[s].vwap = Zero => positions[s].position = 0

\* A position has been opened and closed again.
C17_Witness ==
  /\ Len(fills_of(ETF_SYMBOL)) >= 2
  /\ positions[ETF_SYMBOL].position = 0

\* C17, as the specification states it: VWAP = 0 if and only if position = 0.
C17_VwapZeroIffFlat ==
  \A s \in Symbols : positions[s].vwap = Zero <=> positions[s].position = 0

(***************************************************************************)
(* SpecAdjust: risk.drawdown_adjustments on the drawdowns 0%, 1%, ...,     *)
(* MaxDrawdownPct%.  probe holds the last two drawdowns it was applied to  *)
(* and its two results.                                                    *)
(***************************************************************************)
Drawdowns == {Rat(k, 100) : k \in 0..MaxDrawdownPct}

Adjust(d) ==
  LET out == drawdown_adjustments(d)
  IN /\ probe' = [kind |-> "adjust", d |-> d, out |-> out,
                  d0 |-> IF probe.kind = "adjust" THEN probe.d ELSE d,
                  out0 |-> IF probe.kind = "adjust" THEN probe.out ELSE out]
     /\ UNCHANGED <<manager, strategy, ticks, nfills, watch, seen, fills, exchange>>

NextAdjust == \E d \in Drawdowns : Adjust(d)

SpecAdjust == Init /\ [][NextAdjust]_vars

\* C18, as amended: below the hard limit spread_scale is non-decreasing in
\* the drawdown, and size_scale is non-increasing everywhere; throttled is
\* true exactly from the hard limit on; size_scale is 0 exactly when
\* throttled and at least 0.2 otherwise; at 0.10, 0.20 and 0.25 the results
\* are (1, 1, false), (1.375, 0.825, false) and (2, 0, true).
C18_Adjustments ==
  probe.kind = "adjust" =>
    /\ RLe(probe.d0, probe.d) =>
         /\ RLe(probe.out.size_scale, probe.out0.size_scale)
         /\ RLt(probe.d, RISK_LIMITS.hard_stop_pct) =>
              RLe(probe.out0.spread_scale, probe.out.spread_scale)
    /\ probe.out.throttled <=> RLe(Rat(25, 100), probe.d)
    /\ probe.out.size_scale = Zero <=> probe.out.throttled
    /\ ~probe.out.throttled => RLe(Rat(2, 10), probe.out.size_scale)
    /\ probe.d = Rat(10, 100) =>
         probe.out = [spread_scale |-> One, size_scale |-> One, throttled |-> FALSE]
    /\ probe.d = Rat(20, 100) =>
         probe.out = [spread_scale |-> Rat(1375, 1000), size_scale |-> Rat(825, 1000),
                      throttled |-> FALSE]
    /\ probe.d = Rat(25, 100) =>
         probe.out = [spread_scale |-> I(2), size_scale |-> Zero, throttled |-> TRUE]

\* Two drawdowns inside the band, the second the larger, with a smaller size
\* scale and a larger spread scale.
C18_Witness ==
  /\ probe.kind = "adjust"
  /\ probe.d0 = Rat(16, 100) /\ probe.d = Rat(20, 100)
  /\ probe.out.size_scale # probe.out0.size_scale
  /\ probe.out.spread_scale # probe.out0.spread_scale

\* C18, as the specification states it: over the whole band, the hard limit
\* included, spread_scale is non-decreasing and size_scale non-increasing.
C18_Monotone ==
  probe.kind = "adjust" /\ RLe(probe.d0, probe.d) =>
    /\ RLe(probe.out.size_scale, probe.out0.size_scale)
    /\ RLe(probe.out0.spread_scale, probe.out.spread_scale)

(***************************************************************************)
(* quote_engine.py.  An optional float is [some, v]; a ladder side is the  *)
(* list of its OrderLevels, as build_ladders returns it.                   *)
(***************************************************************************)
EFFECTIVE_MAKER_EDGE_BPS == 7
None == [some |-> FALSE, v |-> Zero]
Some(x) == [some |-> TRUE, v |-> x]
\* int(x) of a float: truncation towards zero.
int(x) == IF x.n >= 0 THEN x.n \div x.d ELSE -((-x.n) \div x.d)

\* A mutant of _price_from_bps: the bid is not floored at 0.01.
price_from_bps_unfloored(mid, bps, side) ==
  LET delta == RMul(mid, RDiv(RMax(One, bps), I(10000)))
  IN IF side = "bid" THEN RSub(mid, delta) ELSE RAdd(mid, delta)

\* quote_engine._price_from_bps
price_from_bps(mid, bps, side) ==
  LET effective_bps == RMax(One, bps)
      delta == RMul(mid, RDiv(effective_bps, I(10000)))
  IN IF side = "bid" THEN RMax(Rat(1, 100), RSub(mid, delta))
     ELSE RAdd(mid, delta)

\* current_size at the start of iteration level_index of build_ladders' loop.
RECURSIVE current_size(_, _, _)
current_size(size_seed, size_multiplier, level_index) ==
  IF level_index = 0 THEN size_seed
  ELSE Max(1, int(RMul(I(current_size(size_seed, size_multiplier, level_index - 1)),
                       size_multiplier)))

\* quote_engine.build_ladders(snapshot, ctx, symbol_config); snapshot_mid is
\* snapshot.order_book.mid.
build_ladders(snapshot_mid, ctx, symbol_config) ==
  LET mid == IF ctx.fair_value.some /\ ctx.fair_value.v # Zero THEN ctx.fair_value
             ELSE snapshot_mid
      base_spread == RAdd(RMul(I(symbol_config.base_spread_bps), ctx.spread_scale),
                          ctx.volatility_bps)
      level_step == RMul(I(symbol_config.level_spread_step_bps), ctx.spread_scale)
      size_seed == Max(1, symbol_config.base_size)
      maker_edge == Rat(EFFECTIVE_MAKER_EDGE_BPS, 2)
      level(side, level_index) ==
        LET offset_bps == RAdd(base_spread, RMul(I(level_index), level_step))
            base_size == Max(1, int(RMul(I(current_size(size_seed,
                                                          symbol_config.size_multiplier,
                                                          level_index)),
                                         ctx.size_scale)))
            side_scale == IF side = "bid" THEN ctx.bid_size_scale ELSE ctx.ask_size_scale
            skew == IF side = "bid" THEN Max(ctx.inventory_skew_bps, 0)
                    ELSE Max(-ctx.inventory_skew_bps, 0)
        IN [level_index |-> level_index,
            price |-> price_from_bps(mid.v, RSub(RAdd(offset_bps, I(skew)), maker_edge), side),
            size |-> Max(1, int(RMul(I(base_size), side_scale)))]
  IN IF ~mid.some \/ RLe(mid.v, Zero)
     THEN [bids |-> <<>>, asks |-> <<>>]
     ELSE [bids |-> [i \in 1..symbol_config.max_levels |-> level("bid", i - 1)],
           asks |-> [i \in 1..symbol_config.max_levels |-> level("ask", i - 1)]]

(***************************************************************************)
(* SpecLadders: build_ladders applied once to arguments drawn from the     *)
(* sets below; probe holds the arguments and the two ladders returned.     *)
(***************************************************************************)
LadderMids == {None, Some(Zero), Some(I(-1)), Some(I(100)), Some(Rat(1, 200))}
LadderContexts ==
  [fair_value : LadderMids,
   volatility_bps : {One, I(5), I(20000)},
   inventory_skew_bps : {-8, 0, 8},
   spread_scale : {One, Rat(25, 8)},
   size_scale : {Zero, Rat(1, 5), I(3)},
   bid_size_scale : {Rat(1, 2), Rat(9, 5)},
   ask_size_scale : {Rat(3, 4), One}]
LadderConfigs ==
  {SymbolConfig, [SymbolConfig EXCEPT !.max_levels = 0],
   [SymbolConfig EXCEPT !.base_size = 1, !.max_levels = 2]}

BuildLadders(snapshot_mid, ctx, symbol_config) ==
  /\ probe.kind = "none"
  /\ probe' = [kind |-> "ladders", snapshot_mid |-> snapshot_mid, ctx |-> ctx,
               symbol_config |-> symbol_config,
               out |-> build_ladders(snapshot_mid, ctx, symbol_config)]
  /\ UNCHANGED <<manager, strategy, ticks, nfills, watch, seen, fills, exchange>>

NextLadders ==
  \E snapshot_mid \in {None, Some(Zero), Some(I(100))}, ctx \in LadderContexts,
     symbol_config \in LadderConfigs :
    BuildLadders(snapshot_mid, ctx, symbol_config)

SpecLadders == Init /\ [][NextLadders]_vars

\* The levels of one returned side: prices not negative, sizes at least 1,
\* at most max_levels levels, distinct level indexes within [0, max_levels).
well_formed(levels, max_levels) ==
  /\ Len(levels) <= max_levels
  /\ \A i \in 1..Len(levels) :
       /\ RLe(Zero, levels[i].price)
       /\ levels[i].size >= 1
       /\ levels[i].level_index \in 0..(max_levels - 1)
       /\ \A j \in 1..Len(levels) : levels[j].level_index = levels[i].level_index => j = i
positive(x) == x.some /\ RLt(Zero, x.v)

\* C19: build_ladders returns two well-formed ladders, and two empty
\* ladders when neither fair_value nor the snapshot mid is a positive number.
C19_LaddersWellFormed ==
  probe.kind = "ladders" =>
    /\ well_formed(probe.out.bids, probe.symbol_config.max_levels)
    /\ well_formed(probe.out.asks, probe.symbol_config.max_levels)
    /\ ~positive(probe.ctx.fair_value) /\ ~positive(probe.snapshot_mid) =>
         probe.out = [bids |-> <<>>, asks |-> <<>>]

\* Six levels were built, the bid prices of the far levels floored at 0.01.
C19_Witness ==
  /\ probe.kind = "ladders"
  /\ Len(probe.out.bids) = 6 /\ Len(probe.out.asks) = 6
  /\ probe.out.bids[6].price = Rat(1, 100)
  /\ probe.out.bids[6].size > 1

(***************************************************************************)
(* strategy.py: the mispricing tilt of the two sides' sizes.               *)
(***************************************************************************)
BASKET_SYMBOLS == {"XYZ", "ABC", "DEF"}
\* SYNTHETIC_WEIGHTS in full, in percent.
BASKET_WEIGHTS ==
  [s \in BASKET_SYMBOLS |-> CASE s = "XYZ" -> 50 [] s = "ABC" -> 30 [] s = "DEF" -> 20]
MISPRICING_INTENSITY_BPS == 40
MISPRICING_SIZE_BONUS == Rat(8, 10)
MISPRICING_SIZE_PENALTY == Rat(5, 10)

\* Strategy._mispricing_intensity
mispricing_intensity(etf_mispricing_bps, weight) ==
  IF RLe(weight, Zero) THEN Zero
  ELSE LET base == RMin(RDiv(RAbs(etf_mispricing_bps),
                             RMax(One, I(MISPRICING_INTENSITY_BPS))), One)
       IN RMax(Zero, RMin(One, RMul(base, weight)))

\* 1.0 for the ETF, SYNTHETIC_WEIGHTS.get(symbol, 0.0) otherwise.
symbol_weight(symbol) ==
  IF symbol = ETF_SYMBOL THEN One
  ELSE IF symbol \in DOMAIN BASKET_WEIGHTS THEN Rat(BASKET_WEIGHTS[symbol], 100)
  ELSE Zero

\* A mutant of _side_size_scales: the ETF is tilted like a constituent.
side_size_scales_alike(symbol, etf_mispricing_bps) ==
  LET intensity == mispricing_intensity(etf_mispricing_bps, symbol_weight(symbol))
      bonus == RAdd(One, RMul(intensity, MISPRICING_SIZE_BONUS))
      penalty == RMax(Rat(1, 2), RSub(One, RMul(intensity, MISPRICING_SIZE_PENALTY)))
  IN IF etf_mispricing_bps = Zero \/ RLe(symbol_weight(symbol), Zero) THEN <<One, One>>
     ELSE IF RLt(Zero, etf_mispricing_bps) THEN <<bonus, penalty>>
     ELSE <<penalty, bonus>>

\* Strategy._side_size_scales: (bid_scale, ask_scale).
side_size_scales(symbol, etf_mispricing_bps) ==
  LET weight == symbol_weight(symbol)
      intensity == mispricing_intensity(etf_mispricing_bps, weight)
      bonus == RAdd(One, RMul(intensity, MISPRICING_SIZE_BONUS))
      penalty == RMax(Rat(1, 2), RSub(One, RMul(intensity, MISPRICING_SIZE_PENALTY)))
  IN IF etf_mispricing_bps = Zero \/ RLe(weight, Zero) THEN <<One, One>>
     ELSE IF symbol = ETF_SYMBOL
     THEN IF RLt(Zero, etf_mispricing_bps) THEN <<penalty, bonus>> ELSE <<bonus, penalty>>
     ELSE IF RLt(Zero, etf_mispricing_bps) THEN <<bonus, penalty>>
     ELSE <<penalty, bonus>>

(***************************************************************************)
(* SpecScales: _side_size_scales applied once to a symbol of config        *)
(* .ALL_SYMBOLS and an ETF mispricing of a whole number of bps up to       *)
(* MaxMispricingBps either way.                                            *)
(***************************************************************************)
SideSizeScales(symbol, etf_mispricing_bps) ==
  /\ probe.kind = "none"
  /\ probe' = [kind |-> "scales", symbol |-> symbol,
               etf_mispricing_bps |-> etf_mispricing_bps,
               out |-> side_size_scales(symbol, etf_mispricing_bps)]
  /\ UNCHANGED <<manager, strategy, ticks, nfills, watch, seen, fills, exchange>>

NextScales ==
  \E symbol \in {ETF_SYMBOL} \cup BASKET_SYMBOLS,
     k \in (-MaxMispricingBps)..MaxMispricingBps :
    SideSizeScales(symbol, I(k))

SpecScales == Init /\ [][NextScales]_vars

\* C20: with positive ETF mispricing the ETF's ask scale exceeds its bid
\* scale and a constituent's bid scale exceeds its ask scale; with negative
\* mispricing the inequalities flip; with zero mispricing both scales are 1;
\* at 100 bps the ETF gets (0.5, 1.8) and XYZ gets (1.4, 0.75).
C20_SideScales ==
  probe.kind = "scales" =>
    LET bid_scale == probe.out[1]
        ask_scale == probe.out[2]
        m == probe.etf_mispricing_bps
        etf == probe.symbol = ETF_SYMBOL
    IN /\ RLt(Zero, m) => IF etf THEN RLt(bid_scale, ask_scale) ELSE RLt(ask_scale, bid_scale)
       /\ RLt(m, Zero) => IF etf THEN RLt(ask_scale, bid_scale) ELSE RLt(bid_scale, ask_scale)
       /\ m = Zero => bid_scale = One /\ ask_scale = One
       /\ m = I(100) /\ etf => probe.out = <<Rat(1, 2), Rat(18, 10)>>
       /\ m = I(100) /\ probe.symbol = "XYZ" => probe.out = <<Rat(14, 10), Rat(3, 4)>>

\* The ETF at 100 bps of positive mispricing.
C20_Witness ==
  /\ probe.kind = "scales"
  /\ probe.symbol = ETF_SYMBOL
  /\ probe.etf_mispricing_bps = I(100)
  /\ probe.out[1] # probe.out[2]

(***************************************************************************)
(* strategy.py, lines 162-183: the ladders _quote_all builds in one tick.  *)
(***************************************************************************)
INVENTORY_SKEW_BPS == 8
NOTIONAL_CAPITAL == 1000000
MISPRICING_SPREAD_WIDEN == Rat(1, 4)
\* self._volatility_bps.get(symbol, 5.0), as the first snapshot leaves it.
DEFAULT_VOLATILITY_BPS == I(5)

\* A mutant of compute_inventory_skew: the ratio is not clamped.
compute_inventory_skew_unclamped(position, limit) ==
  IF limit = 0 THEN 0
  ELSE int(RMul(I(INVENTORY_SKEW_BPS), Rat(position, limit)))

\* quote_engine.compute_inventory_skew
compute_inventory_skew(position, limit) ==
  IF limit = 0 THEN 0
  ELSE int(RMul(I(INVENTORY_SKEW_BPS), RMax(I(-1), RMin(One, Rat(position, limit)))))

\* Strategy._spread_scale_adjust
spread_scale_adjust(symbol, etf_mispricing_bps) ==
  RAdd(One, RMul(mispricing_intensity(etf_mispricing_bps, symbol_weight(symbol)),
                 MISPRICING_SPREAD_WIDEN))

\* The fair value _quote_all takes for a symbol: the synthetic fair for the
\* ETF, the symbol's own mid otherwise; None when there is none.
fair_value_of(symbol, mids) ==
  IF symbol = ETF_SYMBOL
  THEN IF has_synthetic_fair(mids) THEN Some(synthetic_fair(mids)) ELSE None
  ELSE IF symbol \in DOMAIN mids THEN Some(I(mids[symbol])) ELSE None

\* The QuoteContext _quote_all builds for a symbol.
quote_context(symbol, mids, pos, spread_scale, size_scale) ==
  LET etf_mispricing_bps == compute_mispricing_bps(mids)
      scales == side_size_scales(symbol, etf_mispricing_bps)
  IN [fair_value |-> fair_value_of(symbol, mids),
      volatility_bps |-> RMax(One, DEFAULT_VOLATILITY_BPS),
      inventory_skew_bps |-> compute_inventory_skew(pos[symbol].position,
                                                    RISK_LIMITS.max_position),
      spread_scale |-> RMul(spread_scale, spread_scale_adjust(symbol, etf_mispricing_bps)),
      size_scale |-> size_scale,
      bid_size_scale |-> scales[1],
      ask_size_scale |-> scales[2]]

\* The ladders _quote_all hands to sync_symbol for a quoted symbol.
symbol_ladders(symbol, mids, pos, spread_scale, size_scale) ==
  build_ladders(IF symbol \in DOMAIN mids THEN Some(I(mids[symbol])) ELSE None,
                quote_context(symbol, mids, pos, spread_scale, size_scale),
                SymbolConfig)

\* price x size of one level, in whole dollars (rounded down).
level_notional(level) ==
  (level.price.n \div level.price.d) * level.size
    + ((level.price.n % level.price.d) * level.size) \div level.price.d
RECURSIVE side_notional(_, _)
side_notional(levels, n) ==
  IF n = 0 THEN 0 ELSE level_notional(levels[n]) + side_notional(levels, n - 1)
\* quote_engine.estimate_notional over both sides of a symbol's ladders.
estimate_notional(ladders) ==
  side_notional(ladders.bids, Len(ladders.bids))
    + side_notional(ladders.asks, Len(ladders.asks))
RECURSIVE ISum(_, _)
ISum(f, S) ==
  IF S = {} THEN 0
  ELSE LET x == CHOOSE y \in S : TRUE IN f[x] + ISum(f, S \ {x})

(***************************************************************************)
(* SpecNotional: the ladders of one non-throttled tick, from flat          *)
(* positions and no drawdown, for mids that are multiples of MidStep up to *)
(* MaxMidSteps of them (or absent) per symbol.  A snapshot is stored for   *)
(* every symbol that has a mid.                                            *)
(***************************************************************************)
MidStep == 20
MidMaps ==
  UNION {[S -> {k * MidStep : k \in 1..MaxMidSteps}] : S \in (SUBSET Symbols) \ {{}}}

QuoteTick(mids) ==
  /\ probe.kind = "none"
  /\ \E pos \in {[s \in Symbols |-> FlatPosition]} :
     \E adj \in {drawdown_adjustments(Zero)} :
     \E size_scale \in {tick_size_scale(adj, pos, mids)} :
     \E ladders \in {[s \in DOMAIN mids |->
                        symbol_ladders(s, mids, pos, adj.spread_scale, size_scale)]} :
       probe' = [kind |-> "notional", mids |-> mids, size_scale |-> size_scale,
                 ladders |-> ladders,
                 notional |-> ISum([s \in DOMAIN mids |-> estimate_notional(ladders[s])],
                                   DOMAIN mids)]
  /\ UNCHANGED <<manager, strategy, ticks, nfills, watch, seen, fills, exchange>>

NextNotional == \E mids \in MidMaps : QuoteTick(mids)

SpecNotional == Init /\ [][NextNotional]_vars

\* C21, as the specification states it, read generously: the aggregate
\* notional of the ladders of a tick does not exceed the notional capital
\* of which TARGET_RESTING_NOTIONAL is 80%.
C21_NotionalWithinCap ==
  probe.kind = "notional" => probe.notional <= NOTIONAL_CAPITAL

(***************************************************************************)
(* SpecPriority: the order of the syncs of a tick.  The ETF's mid is at    *)
(* or above half the mid of XYZ (its synthetic fair in the model), XYZ     *)
(* may hold inventory from at most MaxFills large fills, gateway calls     *)
(* succeed, and there are MaxTicks ticks after the first.  seen.priority   *)
(* records _symbol_priority of each symbol as the tick under way saw it.   *)
(***************************************************************************)
PrioritySnaps == {[s \in Symbols |-> Got(Book(IF s = ETF_SYMBOL THEN m ELSE 100))] :
                    m \in {50, 51}}
PriorityFills == {<<"XYZ", "bid", 2500, 100>>}

NextPriority ==
  \/ /\ run.pc = "refresh"
     /\ \E snaps \in PrioritySnaps :
          /\ RunRefreshed(snaps, LimiterLadders)
          /\ seen' = [seen EXCEPT !.priority =
                        [s \in Symbols |->
                           symbol_priority(s, compute_mispricing_bps(mid_map(market')),
                                           positions)]]
     /\ UNCHANGED <<ticks, nfills, watch, fills, exchange, probe>>
  \/ \E c \in Tasks : Resume(c, TRUE) /\ UNCHANGED bounded
  \/ Tock /\ UNCHANGED bounded
  \/ /\ nfills < MaxFills
     /\ \E f \in PriorityFills : Fill(f[1], f[2], f[3], f[4])
     /\ nfills' = nfills + 1
     /\ UNCHANGED <<ticks, watch, extra>>
  \/ RunGathered /\ UNCHANGED bounded
  \/ /\ ticks < MaxTicks
     /\ RunWake
     /\ ticks' = ticks + 1
     /\ UNCHANGED <<nfills, watch, extra>>

SpecPriority == Init /\ [][NextPriority]_vars

\* C22: of two symbols synced in a tick, the one of lower priority attempts
\* no place, replace or cancel before the sync_symbol of the one of higher
\* priority is done.
C22_PriorityOrder ==
  \A s1, s2 \in Symbols :
    /\ task[s1].pc # "idle" /\ task[s2].pc # "idle"
    /\ RLt(seen.priority[s2], seen.priority[s1])
    /\ task[s2].acts > 0
    => task[s1].pc = "done"

\* XYZ, of higher priority than the ETF by its inventory, has been synced
\* with at least one action, and the ETF's sync has then sent one.
C22_Witness ==
  /\ RLt(seen.priority[ETF_SYMBOL], seen.priority["XYZ"])
  /\ task["XYZ"].pc = "done" /\ task["XYZ"].acts > 0
  /\ task[ETF_SYMBOL].pc = "io"

\* Realized PnL just after the i-th fill delivered was folded.
realized_after(i) ==
  IF i = Len(fills) THEN pnl.realized ELSE fills[i + 1].realized0

\* What the fills of symbol s have added to realized PnL.
realized_contribution(s) ==
  LET idx == {i \in 1..Len(fills) : fills[i].symbol = s}
  IN RSum([i \in idx |-> RSub(realized_after(i), fills[i].realized0)], idx)

\* Net cash flow of the fills of symbol s: -signed_size * price, summed.
cash_flow(s) ==
  LET idx == {i \in 1..Len(fills) : fills[i].symbol = s}
  IN ISum([i \in idx |-> -(signed_of(fills[i]) * fills[i].price)], idx)

\* C24: after any sequence of fills from flat, for each symbol its realized
\* contribution less position * vwap equals the net cash flow of its fills;
\* hence with every position flat, realized PnL is sell proceeds less buy
\* cost.
C24_CashIdentity ==
  /\ \A s \in Symbols :
       RSub(realized_contribution(s),
            RMul(I(positions[s].position), positions[s].vwap)) = I(cash_flow(s))
  /\ (\A s \in Symbols : positions[s].position = 0)
       => pnl.realized = I(ISum([s \in Symbols |-> cash_flow(s)], Symbols))

\* XYZ was bought, and the ETF was bought and then sold through zero: a
\* realized gain with the ETF left short.
C24_Witness ==
  /\ Len(fills) = MaxFillSteps
  /\ fills_of("XYZ") # <<>>
  /\ realized_contribution(ETF_SYMBOL) # Zero
  /\ positions[ETF_SYMBOL].position < 0

(***************************************************************************)
(* SpecSteps: Strategy.run statement by statement.  probe.stmt is the      *)
(* statement the coroutine is at, an await where it is suspended;          *)
(* probe.reads lists what each statement of the tick read of the positions *)
(* and of realized PnL.  The event loop is single-threaded: a fill's       *)
(* callback runs only while the coroutine is suspended at an await.  The   *)
(* awaited syncs and cancel_all are taken whole here.                      *)
(***************************************************************************)
\* The statements of Strategy.run and _quote_all at which the coroutine is
\* suspended: lines 46, 49/61/73 (_sleep), 60 (cancel_all), 186 (gather).
\* A mutant: fills are folded between any two statements.
suspended_anywhere(stmt) == TRUE
suspended(stmt) == stmt \in {"refresh", "sleep", "cancel_all", "gather"}

StepMids == {[s \in Symbols |-> 100], [s \in Symbols |-> IF s = ETF_SYMBOL THEN 200 ELSE 100],
             [s \in {"XYZ"} |-> 100], <<>>}
StepFills == {<<ETF_SYMBOL, "bid", 10, 100>>, <<ETF_SYMBOL, "ask", 15, 110>>,
              <<"XYZ", "bid", 2500, 100>>}

read(what) == [what |-> what, positions |-> positions, realized |-> pnl.realized]
StepFrame == UNCHANGED <<manager, run, market, fill_net, fill_cash,
                         ticks, nfills, watch, seen, fills, exchange>>

\* Strategy.run is called: line 46, await self._refresh_order_books().
StepStart ==
  /\ probe.kind = "none"
  /\ probe' = [kind |-> "tick", stmt |-> "refresh", mids |-> <<>>, reads |-> <<>>,
               order |-> <<>>, k |-> 0]
  /\ UNCHANGED <<positions, pnl>>
  /\ StepFrame

\* One statement of the tick, up to the next one.
Step ==
  /\ probe.kind = "tick"
  /\ StepFrame
  /\ UNCHANGED positions
  /\ CASE probe.stmt = "refresh" ->
            \* lines 46-50: the refresh returns, mid_map is built
            /\ \E mids \in StepMids :
                 probe' = [probe EXCEPT !.mids = mids, !.reads = <<>>, !.order = <<>>,
                                        !.k = 0,
                                        !.stmt = IF DOMAIN mids = {} THEN "sleep" ELSE "pnl"]
            /\ UNCHANGED pnl
       [] probe.stmt = "pnl" ->
            \* line 52: risk.update_unrealized_pnl
            /\ pnl' = update_unrealized_pnl(pnl, positions, probe.mids)
            /\ probe' = [probe EXCEPT !.stmt = "scales",
                                      !.reads = Append(@, read("update_unrealized_pnl"))]
       [] probe.stmt = "scales" ->
            \* lines 53-62: drawdown and exposure scales, stop or quote
            /\ \E adj \in {drawdown_adjustments(compute_drawdown_pct(pnl))} :
               \E size_scale \in {tick_size_scale(adj, positions, probe.mids)} :
                 probe' = [probe EXCEPT !.stmt = IF stop_quoting(adj, size_scale)
                                                 THEN "cancel_all" ELSE "priority",
                                        !.reads = Append(@, read("scales"))]
            /\ UNCHANGED pnl
       [] probe.stmt = "priority" ->
            \* lines 157-161: the symbols sorted by _symbol_priority
            /\ probe' = [probe EXCEPT
                 !.stmt = "quote", !.k = 1,
                 !.order = symbol_order(compute_mispricing_bps(probe.mids), positions),
                 !.reads = Append(@, read("symbol_priority"))]
            /\ UNCHANGED pnl
       [] probe.stmt = "quote" ->
            \* lines 162-186: one pass of the loop over symbol_order, or its
            \* end and the gather
            /\ IF probe.k > Len(probe.order)
               THEN probe' = [probe EXCEPT !.stmt = "gather"]
               ELSE probe' = [probe EXCEPT
                      !.k = @ + 1,
                      !.reads = IF probe.order[probe.k] \in DOMAIN probe.mids
                                THEN Append(@, read("compute_inventory_skew"))
                                ELSE @]
            /\ UNCHANGED pnl
       [] probe.stmt \in {"gather", "cancel_all"} ->
            \* lines 60-61, 72-73: the awaited call returns
            /\ probe' = [probe EXCEPT !.stmt = "sleep"]
            /\ UNCHANGED pnl
       [] probe.stmt = "sleep" ->
            \* line 46 again
            /\ probe' = [probe EXCEPT !.stmt = "refresh"]
            /\ UNCHANGED pnl

\* A fill's callback runs: Strategy.register_fill.
StepFill ==
  /\ probe.kind = "tick"
  /\ suspended(probe.stmt)
  /\ nfills < MaxFillSteps
  /\ \E f \in StepFills : Fill(f[1], f[2], f[3], f[4])
  /\ nfills' = nfills + 1
  /\ UNCHANGED <<ticks, watch, extra>>

NextSteps == StepStart \/ Step \/ StepFill

SpecSteps == Init /\ [][NextSteps]_vars

\* C25: everything a tick computes between its mid map and the gather of
\* its syncs (unrealized PnL, scales, priorities, inventory skews) reads
\* the same positions and the same realized PnL; positions and realized
\* PnL change only while the tick is suspended in the refresh, in the
\* gather of the syncs, in cancel_all or in the inter-tick sleep.
C25_OneViewPerTick ==
  /\ [](probe.kind = "tick" =>
          \A i, j \in 1..Len(probe.reads) :
            /\ probe.reads[i].positions = probe.reads[j].positions
            /\ probe.reads[i].realized = probe.reads[j].realized)
  /\ [][positions' # positions \/ pnl'.realized # pnl.realized =>
          /\ probe.stmt \in {"refresh", "gather", "cancel_all", "sleep"}
          /\ probe' = probe]_vars

\* A non-throttled tick has quoted both symbols and is in the gather of
\* their syncs, with fills folded before it and since its last read.
C25_Witness ==
  /\ probe.kind = "tick"
  /\ probe.stmt = "gather"
  /\ Len(probe.reads) = 5
  /\ probe.reads[1].positions[ETF_SYMBOL].position # 0
  /\ positions # probe.reads[5].positions

(***************************************************************************)
(* SpecFrame: ticks whose snapshots may come with an empty side (no mid),  *)
(* so that a symbol quoted in one tick is not quoted in the next.  Gateway *)
(* calls succeed, at most MaxFills fills, MaxTicks ticks after the first.  *)
(***************************************************************************)
FrameSnaps == [Symbols -> {Got(Book(100)), Got(EmptyBook)}]

NextFrame ==
  \/ /\ run.pc = "refresh"
     /\ \E snaps \in FrameSnaps : RunRefreshed(snaps, LimiterLadders)
     /\ UNCHANGED bounded
  \/ \E c \in Tasks : Resume(c, TRUE) /\ UNCHANGED bounded
  \/ /\ nfills < MaxFills
     /\ \E f \in FillChoices : Fill(f[1], f[2], f[3], f[4])
     /\ nfills' = nfills + 1
     /\ UNCHANGED <<ticks, watch, extra>>
  \/ RunGathered /\ UNCHANGED bounded
  \/ /\ ticks < MaxTicks
     /\ RunWake
     /\ ticks' = ticks + 1
     /\ UNCHANGED <<nfills, watch, extra>>

SpecFrame == Init /\ [][NextFrame]_vars

\* Symbol s has no stored snapshot or no fair value in the market mkt.
not_quoted(s, mkt) ==
  ~mkt[s].snap \/ fair_value_of(s, mid_map(mkt)) = None

\* C26: from the tick's refresh to the end of its gather, a symbol with no
\* stored snapshot or no fair value keeps its ActiveOrders entries and gets
\* no sync in a tick that is not throttled; and a tick whose mid map is
\* empty goes to its sleep with no sync created, no action reserved or
\* sent, and positions, PnL and ActiveOrders as they were.
C26_UnquotedUntouched ==
  [][/\ \A s \in Symbols :
          /\ run.pc \in {"refresh", "gather"}
          /\ ~run'.stop
          /\ not_quoted(s, market')
          => /\ active_orders'[s] = active_orders[s]
             /\ task'[s].pc = "idle"
     /\ (run.pc = "refresh" /\ run' # run /\ DOMAIN mid_map(market') = {})
          => /\ run'.pc = "sleep"
             /\ UNCHANGED <<active_orders, actions_this_window, sent_this_window,
                            task, positions, pnl>>]_vars

\* XYZ was quoted in the first tick and has a resting order; in the tick
\* under way it has no mid, and the ETF's sync has acted.
C26_Witness ==
  /\ run.pc = "gather"
  /\ not_quoted("XYZ", market)
  /\ active_orders["XYZ"] # EmptyLadder
  /\ task[ETF_SYMBOL].acts > 0

(***************************************************************************)
(* SpecLoss: ticks over a position bought at 100 while the ETF's mid is    *)
(* below, at or above 100.  Gateway calls succeed; at most MaxFills fills. *)
(***************************************************************************)
LossSnaps == {[s \in Symbols |-> Got(Book(IF s = ETF_SYMBOL THEN m ELSE 100))] :
                m \in {50, 100, 105}}
LossFills == {<<ETF_SYMBOL, "bid", 1000, 100>>}

NextLoss ==
  \/ /\ run.pc = "refresh"
     /\ \E snaps \in LossSnaps : RunRefreshed(snaps, LimiterLadders)
     /\ UNCHANGED bounded
  \/ /\ nfills < MaxFills
     /\ \E f \in LossFills : Fill(f[1], f[2], f[3], f[4])
     /\ nfills' = nfills + 1
     /\ UNCHANGED <<ticks, watch, extra>>
  \/ \E c \in Tasks : Resume(c, TRUE) /\ UNCHANGED bounded
  \/ RunGathered /\ UNCHANGED bounded
  \/ RunWake /\ UNCHANGED bounded

SpecLoss == Init /\ [][NextLoss]_vars

\* C27: while the equity high watermark is still 0 (realized + unrealized
\* was never positive at a tick's PnL update), the drawdown is 0, the
\* adjustments are (1, 1, false), and no tick has stopped quoting or called
\* cancel_all, whatever the loss.
C27_NoWatermarkNoStop ==
  pnl.equity_high_watermark = Zero =>
    /\ compute_drawdown_pct(pnl) = Zero
    /\ drawdown_adjustments(compute_drawdown_pct(pnl)) =
         [spread_scale |-> One, size_scale |-> One, throttled |-> FALSE]
    /\ ~run.stop
    /\ run.pc # "cancel_all"
    /\ task["main"].pc = "idle"

\* A tick has marked a loss of 50,000 and gone on to quote.
C27_Witness ==
  /\ pnl.equity_high_watermark = Zero
  /\ RLe(RAdd(pnl.realized, pnl.unrealized), I(-50000))
  /\ run.pc = "gather"
  /\ \E s \in Symbols : task[s].acts > 0

(***************************************************************************)
(* SpecPosition: ticks that quote both symbols at a mid of 100 from the    *)
(* positions as they stand, and fills of the two deepest bids of the       *)
(* ETF's ladder, at 100.  probe holds the last tick's ladders and the      *)
(* positions it read.  Fills stop once the position is MaxOvershoot above  *)
(* max_position.                                                           *)
(***************************************************************************)
PositionMids == [s \in Symbols |-> 100]
FilledLevels == {SymbolConfig.max_levels - 1, SymbolConfig.max_levels}

\* Lines 46-72 of Strategy.run, up to the ladders handed to sync_symbol.
PositionTick ==
  /\ \E pnl1 \in {update_unrealized_pnl(pnl, positions, PositionMids)} :
     \E adj \in {drawdown_adjustments(compute_drawdown_pct(pnl1))} :
     \E size_scale \in {tick_size_scale(adj, positions, PositionMids)} :
       /\ pnl' = pnl1
       /\ probe' =
            IF stop_quoting(adj, size_scale) THEN [kind |-> "stopped"]
            ELSE [kind |-> "quoted", positions |-> positions,
                  skew |-> [s \in Symbols |->
                              compute_inventory_skew(positions[s].position,
                                                     RISK_LIMITS.max_position)],
                  ladders |-> [s \in Symbols |->
                                 symbol_ladders(s, PositionMids, positions,
                                                adj.spread_scale, size_scale)],
                  open |-> FilledLevels]
  /\ UNCHANGED <<manager, run, market, positions, fill_net, fill_cash,
                 ticks, nfills, watch, seen, fills, exchange>>

\* A resting bid of the ETF's last ladder is filled in full.
BidFilled(i) ==
  /\ probe.kind = "quoted"
  /\ i \in probe.open
  /\ positions[ETF_SYMBOL].position <= RISK_LIMITS.max_position + MaxOvershoot
  /\ Fill(ETF_SYMBOL, "bid", probe.ladders[ETF_SYMBOL].bids[i].size, PositionMids[ETF_SYMBOL])
  /\ probe' = [probe EXCEPT !.open = @ \ {i}]
  /\ UNCHANGED <<ticks, nfills, watch, seen, fills, exchange>>

NextPosition == PositionTick \/ \E i \in FilledLevels : BidFilled(i)

SpecPosition == Init /\ [][NextPosition]_vars

\* C28: whatever the positions a tick reads, it does not stop for them, and
\* each quoted symbol gets max_levels bids and max_levels asks, every size
\* at least 1; the inventory skew it applies stays within
\* +/-INVENTORY_SKEW_BPS.
C28_QuotedWhateverPosition ==
  /\ probe.kind # "stopped"
  /\ probe.kind = "quoted" =>
       \A s \in Symbols :
         /\ Len(probe.ladders[s].bids) = SymbolConfig.max_levels
         /\ Len(probe.ladders[s].asks) = SymbolConfig.max_levels
         /\ \A i \in 1..SymbolConfig.max_levels :
              probe.ladders[s].bids[i].size >= 1 /\ probe.ladders[s].asks[i].size >= 1
         /\ Abs(probe.skew[s]) <= INVENTORY_SKEW_BPS

\* Bid fills have taken the ETF's position above max_position, and the tick
\* that read that position has quoted bids again.
C28_Witness ==
  /\ probe.kind = "quoted"
  /\ probe.positions[ETF_SYMBOL].position > RISK_LIMITS.max_position
  /\ probe.ladders[ETF_SYMBOL].bids # <<>>
  /\ probe.open # FilledLevels
  /\ positions[ETF_SYMBOL].position > probe.positions[ETF_SYMBOL].position

(***************************************************************************)
(* SpecGateway: the requests that reach the gateway.  Ticks go on for ever *)
(* with ladders that move between two prices, gateway calls succeed, the   *)
(* clock moves freely.  probe counts, since the limiter's window was last  *)
(* reset, the gateway requests sent (send_new_async, cancel_order_async)   *)
(* and the slots granted to replaces; exchange holds the live orders.      *)
(***************************************************************************)
gateway == IF probe.kind = "gateway" THEN probe
           ELSE [kind |-> "gateway", requests |-> 0, replaces |-> 0]

\* A coroutine that enters a gateway call in this step has sent a request;
\* the window was reset in this step if its elapsed time fell.
Observe ==
  LET reset == elapsed' < elapsed
      granted == reset \/ actions_this_window' > actions_this_window
      sent == {c \in Tasks : task'[c].pc = "io" /\ task'[c] # task[c]}
      replaced == {c \in sent \cap Symbols :
                     granted /\ sync_op(active_orders'[c], desired'[c], task'[c].pos)
                                  = "replace"}
  IN probe' = [kind |-> "gateway",
               requests |-> (IF reset THEN 0 ELSE gateway.requests) + Cardinality(sent),
               replaces |-> (IF reset THEN 0 ELSE gateway.replaces) + Cardinality(replaced)]

NextGateway ==
  \/ /\ \E c \in Tasks : Resume(c, TRUE) /\ exchange' = exchange_after(exchange, task[c], c)
     /\ Observe
     /\ UNCHANGED <<ticks, nfills, watch, seen, fills>>
  \/ /\ Tock
     /\ UNCHANGED bounded
  \/ /\ RunWake
     /\ UNCHANGED bounded
  \/ /\ run.pc = "refresh"
     /\ \E snaps \in RateSnaps : RunRefreshed(snaps, LimiterLadders)
     /\ Observe
     /\ UNCHANGED <<ticks, nfills, watch, seen, fills, exchange>>
  \/ RunGathered /\ UNCHANGED bounded

SpecGateway == Init /\ [][NextGateway]_vars

\* The level a sync_symbol coroutine is acting on.
acting_on(c) == <<sync_side(task[c].pos), pos_level(task[c].pos)>>

\* C29: a replace takes one slot and sends two gateway requests, so the
\* requests sent in a window are the slots granted plus the replaces among
\* them (less a replace whose new order is still to be sent), at most
\* 2 * MAX_ACTIONS_PER_SECOND; while a replace is between its cancel and
\* its new order, no order is live at its level.
C29_TwoRequestsPerReplace ==
  /\ gateway.requests <= 2 * MAX_ACTIONS_PER_SECOND
  /\ gateway.replaces <= actions_this_window
  /\ gateway.requests =
       actions_this_window + gateway.replaces
         - Cardinality({c \in Symbols : task[c].pc = "io" /\ task[c].op = "replace_cancel"})
  /\ \A c \in Symbols :
       task[c].pc = "io" /\ task[c].op = "replace_place" =>
         /\ exchange[c][acting_on(c)[1]][acting_on(c)[2]] = NoOrder
         /\ active_orders[c][acting_on(c)[1]][acting_on(c)[2]] # NoOrder

\* More than MAX_ACTIONS_PER_SECOND requests have gone out in one window,
\* and a replace is between its cancel and its new order.
C29_Witness ==
  /\ gateway.requests > MAX_ACTIONS_PER_SECOND
  /\ \E c \in Symbols : task[c].pc = "io" /\ task[c].op = "replace_place"

(***************************************************************************)
(* SpecLive: the limiter under fair scheduling.  Ticks go on for ever with *)
(* one snapshot per symbol and no fills; gateway calls return without      *)
(* error.  The event loop resumes every coroutine that can run, and the    *)
(* clock advances: weak fairness of each coroutine's resumption and of the *)
(* clock.                                                                  *)
(***************************************************************************)
LiveResume(c) == Resume(c, TRUE) /\ UNCHANGED bounded
LiveTock == Tock /\ UNCHANGED bounded

NextLive ==
  \/ \E c \in Tasks : LiveResume(c)
  \/ LiveTock
  \/ RunWake /\ UNCHANGED bounded
  \/ /\ run.pc = "refresh"
     /\ \E snaps \in RateSnaps : RunRefreshed(snaps, LimiterLadders)
     /\ UNCHANGED bounded
  \/ RunGathered /\ UNCHANGED bounded

SpecLive ==
  /\ Init
  /\ [][NextLive]_vars
  /\ WF_vars(LiveTock)
  /\ \A c \in Tasks : WF_vars(LiveResume(c))

====
